---- MODULE Spec2Model ----
(***************************************************************************)
(* A model of the clubhub backend (backend/index.js, backend/db.js and     *)
(* the PostgreSQL schema): the OTP ledger and /auth/verify, and the event  *)
(* registration routes.  Every `await` of a handler that reads or writes   *)
(* shared state is a step of its own, so that requests interleave the way  *)
(* the Node event loop and the database let them.                          *)
(*                                                                         *)
(* JavaScript values are records tagged with their type, so that `===`     *)
(* and `!==` are plain equality: Str(<<"a">>) is the string "a", Num(1)    *)
(* the number 1, Null and Undefined the two empty values.                  *)
(***************************************************************************)
EXTENDS Integers, Sequences, FiniteSets, TLC

(* ------------------------------ bounds -------------------------------- *)

\* The clock runs from 0 to MaxTime.  One tick of the OTP clock is one
\* CODE_TTL; one tick of the registration clock is any fixed span.
MaxTime == 3

\* At most this many /auth/send-code requests are served in one behaviour.
MaxIssues == 2

\* The largest max_registrations an announcement is created with.
MaxCap == 2

\* The calls of getLazyPool in flight at a time.
MaxQueries == 3

(* --------------------------- JavaScript values ------------------------ *)

Null == [typ |-> "null"]

Undefined == [typ |-> "undefined"]

Str(chars) == [typ |-> "string", chars |-> chars]

Num(n) == [typ |-> "number", val |-> n]

Bool(b) == [typ |-> "boolean", val |-> b]

\* A value an `if` takes as true.
truthy(v) ==
  /\ v # Null
  /\ v # Undefined
  /\ v # Num(0)
  /\ v # Bool(FALSE)
  /\ v # Str(<<>>)

\* String.prototype.toLowerCase, character by character.
LowerChar(c) ==
  CASE c = "A" -> "a"
    [] c = "B" -> "b"
    [] c = "C" -> "c"
    [] OTHER -> c

toLowerCase(s) == Str([i \in DOMAIN s.chars |-> LowerChar(s.chars[i])])

\* The email addresses requests carry: two spellings of one address, and
\* another address.
EmailInputs == {Str(<<"a">>), Str(<<"A">>), Str(<<"b">>)}

\* The keys of codeStore and of the users table: lower-cased addresses.
Keys == {toLowerCase(e) : e \in EmailInputs}

\* generateCode: a string of six digits, Math.random decides which.
generateCode == {Str(<<"1", "0", "0", "0", "0", "0">>),
                 Str(<<"9", "9", "9", "9", "9", "9">>)}

\* The `code` field of a /auth/verify body: a JSON string or a JSON number.
CodeInputs == generateCode \cup {Num(100000)}

\* The `password` field of a /auth/verify body: absent, a string of 5
\* characters, a string of 6 characters, a number.
PasswordInputs ==
  {Undefined,
   Str(<<"s", "e", "c", "r", "e">>),
   Str(<<"s", "e", "c", "r", "e", "t">>),
   Num(1234567)}

\* The string of n characters c.
Repeat(c, n) == [i \in 1..n |-> c]

\* Two passwords of 73 characters that differ in the last one.
LongPassword(last) == Str(Repeat("x", 72) \o <<last>>)

\* The `confirm` field: absent, or a string.
ConfirmInputs ==
  {Undefined,
   Str(<<"s", "e", "c", "r", "e">>),
   Str(<<"s", "e", "c", "r", "e", "t">>)}

(* ------------------------------ constants ----------------------------- *)

\* CODE_TTL, in ticks of the clock (index.js: 300 s by default).
CODE_TTL == 1

\* The shortest password /auth/verify accepts.
MIN_PASSWORD_LENGTH == 6

\* JWT_EXPIRES, in ticks of the clock (index.js: '1h' by default).
JWT_EXPIRES == 2

\* expiresIn: '7d' of the token in the coordinator's mail, on the same scale.
ACTION_EXPIRES == 3

(* ------------------------------- state -------------------------------- *)

VARIABLES
  now,          \* Date.now() / new Date()
  codeStore,    \* the Map codeStore: key -> {code, expiresAt} or Undefined
  users,        \* table users: key -> row or Null
  vreq,         \* the /auth/verify requests in flight
  resp,         \* the response (or validateCode result) the last step produced
  issues,       \* number of /auth/send-code requests served so far
  lastIssue,    \* history: key -> the last {code, at} storeCode stored, and
                \* the code of the record it replaced (prev)
  passes,       \* history: key -> validateCode successes since the last issue
  ann,          \* table announcements: the row of announcement 1, or Null
  regs,         \* table event_registrations: user key -> status of the row
  rreq,         \* the register requests in flight
  overlap,      \* history: request -> another request ran during this one
  DEV_FALLBACK, \* the flag read from the environment at start-up
  tokens,       \* the session token each client holds: the last one issued
                \* to it by /auth/login, or Undefined
  preq,         \* the POST /profile requests in flight
  notify,       \* where the notifySubscribers call of announcement 1 stands
  club_subscriptions, \* table club_subscriptions: the rows with is_active
  attempted,    \* history: the users a notification mail was handed to
                \* sendEmailWrapper for
  hostIsIp,     \* process.env.DB_HOST is unset or an IPv4 address
  actualPool,   \* `actualPool` of db.js: the number of the Pool, or Null
  created,      \* history: the number of Pools constructed so far
  lazy          \* the calls of getLazyPool in flight

authVars == <<codeStore, users, vreq, issues, lastIssue, passes>>

regVars == <<ann, regs, rreq, overlap>>

poolVars == <<hostIsIp, actualPool, created, lazy>>

sessVars ==
  <<DEV_FALLBACK, tokens, preq, notify, club_subscriptions, attempted, poolVars>>

vars == <<now, resp, authVars, regVars, sessVars>>

\* The /auth/verify request slots and the register request slots.
VerifyReqs == {1, 2}

RegReqs == {1, 2}

\* The POST /profile request slots.
ProfileReqs == {1, 2}

(* ----------------------------- OTP ledger ----------------------------- *)

\* storeCode keyed by the address as submitted, not lower-cased: a record no
\* lookup under the lower-cased key finds.
storeCodeRawKey(store, email, code, t) ==
  IF email \in DOMAIN store
  THEN [store EXCEPT ![email] = [code |-> code, expiresAt |-> t + CODE_TTL]]
  ELSE store

\* storeCode(email, code), lines 137-141.
storeCode(store, email, code, t) ==
  [store EXCEPT ![toLowerCase(email)] = [code |-> code, expiresAt |-> t + CODE_TTL]]

\* validateCode with the expiry test off by one tick: Date.now() >= expiresAt.
validateCodeResultEarly(store, email, code, t) ==
  LET rec == store[toLowerCase(email)] IN
  IF rec = Undefined THEN FALSE
  ELSE IF t >= rec.expiresAt THEN FALSE
  ELSE IF rec.code # code THEN FALSE
  ELSE TRUE

\* validateCode(email, code), lines 143-154: the value it returns.
validateCodeResult(store, email, code, t) ==
  LET rec == store[toLowerCase(email)] IN
  IF rec = Undefined THEN FALSE
  ELSE IF t > rec.expiresAt THEN FALSE
  ELSE IF rec.code # code THEN FALSE
  ELSE TRUE

\* validateCode deleting under the address as submitted, not lower-cased.
validateCodeStoreRawKey(store, email, code, t) ==
  LET key == toLowerCase(email)
      rec == store[key] IN
  IF rec = Undefined THEN store
  ELSE IF t > rec.expiresAt THEN [store EXCEPT ![key] = Undefined]
  ELSE IF rec.code # code THEN store
  ELSE IF email \in DOMAIN store THEN [store EXCEPT ![email] = Undefined]
  ELSE store

\* validateCode that leaves a matched record in the store.
validateCodeStoreKeep(store, email, code, t) ==
  LET key == toLowerCase(email)
      rec == store[key] IN
  IF rec = Undefined THEN store
  ELSE IF t > rec.expiresAt THEN [store EXCEPT ![key] = Undefined]
  ELSE store

\* validateCode that deletes the record on a mismatch as well.
validateCodeStoreDropOnMismatch(store, email, code, t) ==
  LET key == toLowerCase(email)
      rec == store[key] IN
  IF rec = Undefined THEN store
  ELSE [store EXCEPT ![key] = Undefined]

\* validateCode(email, code): the store it leaves.
validateCodeStore(store, email, code, t) ==
  LET key == toLowerCase(email)
      rec == store[key] IN
  IF rec = Undefined THEN store
  ELSE IF t > rec.expiresAt THEN [store EXCEPT ![key] = Undefined]
  ELSE IF rec.code # code THEN store
  ELSE [store EXCEPT ![key] = Undefined]

(* ---------------------------- users table ----------------------------- *)

\* db.js lines 61-70: the object exported as `pool` has the methods query
\* and connect, and neither they nor the pg Pool behind them offer more.
poolHas(method) == method \in {"query", "connect"}

\* The first n elements of a sequence.
Prefix(seq, n) == SubSeq(seq, 1, IF Len(seq) < n THEN Len(seq) ELSE n)

\* bcrypt.hash(password, 10) of bcryptjs (index.js lines 8 and 250): a value
\* only bcrypt.compare can match.  bcrypt reads the first 72 bytes of the
\* password and nothing after them; the characters here are one byte each.
bcryptHash(password) == [typ |-> "hash", of |-> Str(Prefix(password.chars, 72))]

\* findUserByEmail(email), db.js lines 76-99.
findUserByEmail(tbl, email) == tbl[toLowerCase(email)]

\* createUser(email, passwordHash, role), db.js lines 101-109.  The INSERT
\* fails on the UNIQUE constraint of users.email when the row exists.
createUserFails(tbl, email) == tbl[toLowerCase(email)] # Null

\* An INSERT that gives every new user the role student.
createUserAsStudent(tbl, email, passwordHash, role) ==
  [tbl EXCEPT ![toLowerCase(email)] =
     [password_hash |-> passwordHash, role |-> Str(<<"student">>),
      club_id |-> Null, admin_requested |-> FALSE,
      name |-> Null, branch |-> Null, roll_number |-> Null]]

createUser(tbl, email, passwordHash, role) ==
  [tbl EXCEPT ![toLowerCase(email)] =
     [password_hash |-> passwordHash, role |-> role,
      club_id |-> Null, admin_requested |-> FALSE,
      name |-> Null, branch |-> Null, roll_number |-> Null]]

\* updatePassword(email, passwordHash), db.js lines 158-163: an UPDATE, which
\* changes nothing when no row matches.
updatePassword(tbl, email, passwordHash) ==
  LET key == toLowerCase(email) IN
  IF tbl[key] = Null THEN tbl
  ELSE [tbl EXCEPT ![key].password_hash = passwordHash]

(* ------------------------- requests and replies ----------------------- *)

\* What a step answered: the route, the address (or user), code, password
\* and confirm of the request, the HTTP status (0: the request goes on) and
\* the error text.
Resp(op, who, code, password, confirm, status, error) ==
  [op |-> op, who |-> who, code |-> code, password |-> password,
   confirm |-> confirm, status |-> status, error |-> error]

NoResp == Resp("none", Null, Null, Null, Null, 0, "")

Idle == [pc |-> "idle"]

(* ------------------------- db.js: getLazyPool ------------------------ *)

\* The calls of pool.query / pool.connect that can be in flight together.
LazyCalls == 1..MaxQueries

\* No call of getLazyPool has been made: actualPool is null (line 21).
\* DB_HOST is a host name.
InitPool ==
  /\ hostIsIp = FALSE
  /\ actualPool = Null
  /\ created = 0
  /\ lazy = [q \in LazyCalls |-> Idle]

\* Lines 44-48: actualPool = new Pool({...}), whatever actualPool holds.
constructPool(current, n) == Num(n + 1)

\* getLazyPool up to its first await or its return, lines 23-57, as the
\* stub's query and connect call it (62-69).  With an actualPool it returns
\* it; with a host that is not an IPv4 address it awaits
\* dns.promises.resolve4; otherwise it constructs the Pool at once.
LazyStart(q) ==
  /\ lazy[q] = Idle
  /\ IF actualPool # Null
     THEN /\ lazy' = [lazy EXCEPT ![q] = [pc |-> "done", pool |-> actualPool]]
          /\ UNCHANGED <<actualPool, created>>
     ELSE IF ~hostIsIp
     THEN /\ lazy' = [lazy EXCEPT ![q] = [pc |-> "dns"]]
          /\ UNCHANGED <<actualPool, created>>
     ELSE /\ actualPool' = constructPool(actualPool, created)
          /\ created' = IF actualPool' = actualPool THEN created ELSE created + 1
          /\ lazy' = [lazy EXCEPT ![q] = [pc |-> "done", pool |-> actualPool']]
  /\ resp' = NoResp
  /\ UNCHANGED <<now, authVars, regVars, DEV_FALLBACK, tokens, preq, notify,
                 club_subscriptions, attempted, hostIsIp>>

\* Lines 34-56: resolve4 has answered or thrown (the catch goes on with
\* the host name); the Pool is constructed and returned.
LazyResolved(q) ==
  /\ lazy[q].pc = "dns"
  /\ actualPool' = constructPool(actualPool, created)
  /\ created' = IF actualPool' = actualPool THEN created ELSE created + 1
  /\ lazy' = [lazy EXCEPT ![q] = [pc |-> "done", pool |-> actualPool']]
  /\ resp' = NoResp
  /\ UNCHANGED <<now, authVars, regVars, DEV_FALLBACK, tokens, preq, notify,
                 club_subscriptions, attempted, hostIsIp>>

\* Lines 63-64 and 67-68: the query or connect on the Pool it was given
\* has ended.
LazyEnd(q) ==
  /\ lazy[q].pc = "done"
  /\ lazy' = [lazy EXCEPT ![q] = Idle]
  /\ resp' = NoResp
  /\ UNCHANGED <<now, authVars, regVars, DEV_FALLBACK, tokens, preq, notify,
                 club_subscriptions, attempted, hostIsIp, actualPool, created>>

Min(a, b) == IF a < b THEN a ELSE b

(* ------------------------------ the clock ----------------------------- *)

Tick ==
  /\ now < MaxTime
  /\ now' = now + 1
  /\ resp' = NoResp
  /\ UNCHANGED <<authVars, regVars, sessVars>>

(* ------------------------- POST /auth/send-code ----------------------- *)

\* Lines 216-226, the reply with every outcome of the delivery answered by
\* the code: DEV_FALLBACK is not consulted.
sendCodeReplyLeaky(delivered, devFallback, code) ==
  IF delivered
  THEN [status |-> 200, error |-> "", body |-> Undefined]
  ELSE [status |-> 200, error |-> "", body |-> code]

\* Lines 216-226: the reply to a request whose code is stored, by the outcome
\* of transporter.sendMail and DEV_FALLBACK; `body` is the code field of
\* the JSON sent.
sendCodeReply(delivered, devFallback, code) ==
  IF delivered
  THEN [status |-> 200, error |-> "", body |-> Undefined]
  ELSE IF devFallback
  THEN [status |-> 200, error |-> "", body |-> code]
  ELSE [status |-> 500, error |-> "failed to send email", body |-> Undefined]

\* What /auth/send-code answered: the address and the stored code of the
\* request, whether the mail was delivered, and the reply.
SendReply(email, code, delivered, reply) ==
  [op |-> "send-code", who |-> email, code |-> code, delivered |-> delivered,
   status |-> reply.status, error |-> reply.error, body |-> reply.body]

\* Lines 196-227.  generateCode and storeCode run before the only await, of
\* transporter.sendMail, so the code is stored whatever becomes of the
\* delivery; `code` is what generateCode returned, `delivered` whether
\* sendMail resolved.
SendCode(email, code, delivered) ==
  /\ issues < MaxIssues
  /\ issues' = issues + 1
  /\ IF ~truthy(email) \/ email.typ # "string"
     THEN /\ resp' = SendReply(email, Undefined, delivered,
                               [status |-> 400, error |-> "email required",
                                body |-> Undefined])
          /\ UNCHANGED <<codeStore, lastIssue, passes>>
     ELSE /\ codeStore' = storeCode(codeStore, email, code, now)
          /\ lastIssue' = [lastIssue EXCEPT ![toLowerCase(email)] =
                             [code |-> code, at |-> now,
                              prev |-> IF codeStore[toLowerCase(email)] = Undefined
                                       THEN Undefined
                                       ELSE codeStore[toLowerCase(email)].code]]
          /\ passes' = [passes EXCEPT ![toLowerCase(email)] = 0]
          /\ resp' = SendReply(email, code, delivered,
                               sendCodeReply(delivered, DEV_FALLBACK, code))
  /\ UNCHANGED <<sessVars, now, users, vreq, regVars>>

(* --------------------------- POST /auth/verify ------------------------ *)

\* Lines 229-238: the body check and validateCode, one synchronous run.  The
\* handler reads password and confirm only after its first await: they are
\* part of the answer when the request ends here, and are drawn in
\* VerifyFinish, where the handler reads them, when it goes on.
VerifyValidate(r, email, code, password, confirm) ==
  /\ vreq[r] = Idle
  /\ IF email = Undefined \/ code = Undefined
     THEN /\ resp' = Resp("verify", email, code, password, confirm, 400,
                          "email and code required")
          /\ UNCHANGED <<codeStore, vreq, passes>>
     ELSE LET ok == validateCodeResult(codeStore, email, code, now) IN
          /\ codeStore' = validateCodeStore(codeStore, email, code, now)
          /\ IF ok
             THEN /\ vreq' = [vreq EXCEPT ![r] =
                                [pc |-> "find", email |-> email, code |-> code]]
                  /\ passes' = [passes EXCEPT ![toLowerCase(email)] =
                                  Min(passes[toLowerCase(email)] + 1, 2)]
                  /\ resp' = Resp("validate", email, code, Null, Null, 0, "")
             ELSE /\ resp' = Resp("verify", email, code, password, confirm, 401,
                                  "invalid or expired code")
                  /\ UNCHANGED <<vreq, passes>>
  /\ UNCHANGED <<sessVars, now, users, issues, lastIssue, regVars>>

\* Lines 239-240: const key = email.toLowerCase(); await findUserByEmail(key).
VerifyFind(r) ==
  /\ vreq[r].pc = "find"
  /\ vreq' = [vreq EXCEPT ![r] =
                [pc |-> "write", email |-> vreq[r].email, code |-> vreq[r].code,
                 existing |-> findUserByEmail(users, toLowerCase(vreq[r].email))]]
  /\ resp' = NoResp
  /\ UNCHANGED <<sessVars, now, codeStore, users, issues, lastIssue, passes, regVars>>

\* The length test off by one: password.length < 5.
passwordTooShortByOne(password) ==
  \/ password.typ # "string"
  \/ Len(password.chars) < MIN_PASSWORD_LENGTH - 1

\* Line 243: typeof password !== 'string' || password.length < 6.
passwordTooShort(password) ==
  \/ password.typ # "string"
  \/ Len(password.chars) < MIN_PASSWORD_LENGTH

\* Line 246: password !== confirm.
confirmDiffers(password, confirm) == password # confirm

\* Lines 242-270: the password checks and the write to users.
VerifyFinish(r, password, confirm) ==
  LET key == toLowerCase(vreq[r].email)
      existing == vreq[r].existing
      Answer(status, error) ==
        Resp("verify", vreq[r].email, vreq[r].code, password, confirm, status, error)
  IN
  /\ vreq[r].pc = "write"
  /\ vreq' = [vreq EXCEPT ![r] = Idle]
  /\ IF password # Undefined
     THEN IF passwordTooShort(password)
          THEN /\ resp' = Answer(400, "password must be at least 6 characters")
               /\ UNCHANGED users
          ELSE IF confirmDiffers(password, confirm)
          THEN /\ resp' = Answer(400, "password and confirm do not match")
               /\ UNCHANGED users
          ELSE IF existing # Null
          THEN /\ users' = updatePassword(users, key, bcryptHash(password))
               /\ resp' = Answer(200, "")
          ELSE IF createUserFails(users, key)
          THEN /\ resp' = Answer(500, "server error")
               /\ UNCHANGED users
          ELSE /\ users' = createUser(users, key, bcryptHash(password), Null)
               /\ resp' = Answer(200, "")
     ELSE IF existing # Null
          THEN /\ resp' = Answer(200, "")
               /\ UNCHANGED users
          ELSE IF createUserFails(users, key)
          THEN /\ resp' = Answer(500, "server error")
               /\ UNCHANGED users
          ELSE /\ users' = createUser(users, key, Null, Null)
               /\ resp' = Answer(200, "")
  /\ UNCHANGED <<sessVars, now, codeStore, issues, lastIssue, passes, regVars>>

(* --------------------------- session tokens --------------------------- *)

\* The address isCoordinator compares with, line 178.
coordinatorEmail == Str(<<"bigbossssz550@gmail.com">>)

\* jwt.sign({sub, role}, JWT_SECRET, {expiresIn: JWT_EXPIRES}) at time t.
signSession(sub, role, t) ==
  [sub |-> sub, role |-> role, exp |-> t + JWT_EXPIRES, secret |-> "JWT_SECRET"]

\* A token of the same shape signed with another secret.
forgedSession(sub, role, t) ==
  [sub |-> sub, role |-> role, exp |-> t + JWT_EXPIRES, secret |-> "other"]

\* An action token that also names the coordinator as its subject.
signActionWithSub(email, club_id, t) ==
  [action |-> "admin_request", email |-> email, club_id |-> club_id,
   sub |-> Str(<<"bigbossssz550@gmail.com">>),
   exp |-> t + ACTION_EXPIRES, secret |-> "JWT_SECRET"]

\* The token sendAdminRequestEmail signs for the links of its mail, lines
\* 882-892: another payload, the same secret.
signAction(email, club_id, t) ==
  [action |-> "admin_request", email |-> email, club_id |-> club_id,
   exp |-> t + ACTION_EXPIRES, secret |-> "JWT_SECRET"]

\* A field of the payload jwt.verify returns, undefined when it has none.
payload(token, field) ==
  IF field \in DOMAIN token THEN token[field] ELSE Undefined

\* jwt.verify(token, JWT_SECRET) does not throw: the signature is made with
\* JWT_SECRET and the expiry is still ahead.
jwtVerify(token, t) == token.secret = "JWT_SECRET" /\ t < token.exp

\* An Authorization header as auth.split(' ') sees it: a scheme and a token,
\* or one part only; Undefined when the request has no such header.
Header(scheme, token) == [parts |-> <<scheme, token>>]

BareHeader(token) == [parts |-> <<token>>]

\* What a check of the credentials gives: a status (0: the request goes
\* on), an error text, and the subject of the token.
Denied(status, error) == [status |-> status, error |-> error, email |-> Undefined]

Granted(email) == [status |-> 0, error |-> "", email |-> email]

\* authMiddleware, lines 158-175.
authMiddleware(header, t) ==
  IF header = Undefined THEN Denied(401, "missing token")
  ELSE IF Len(header.parts) # 2 \/ header.parts[1] # "Bearer"
  THEN Denied(401, "invalid auth header")
  ELSE IF ~jwtVerify(header.parts[2], t) THEN Denied(401, "invalid token")
  ELSE Granted(payload(header.parts[2], "sub"))

\* isCoordinator that lets every authenticated caller through.
isCoordinatorAnyone(userEmail) == TRUE

\* isCoordinator, lines 177-183.
isCoordinator(userEmail) == userEmail = coordinatorEmail

\* authMiddleware followed by isCoordinator, as the /admin routes chain them.
adminGate(header, t) ==
  LET auth == authMiddleware(header, t) IN
  IF auth.status # 0 THEN auth
  ELSE IF ~isCoordinator(auth.email)
  THEN Denied(403, "Access denied: Admin privileges required")
  ELSE auth

\* The check POST /profile and POST /announcements make themselves, lines
\* 380-385 and 2038-2043: the token is auth.split(' ')[1] whatever the
\* scheme, and a jwt.verify that throws lands in the catch of the handler,
\* as does payload.sub.toLowerCase() for a payload without a sub.
inlineAuth(header, t) ==
  IF header = Undefined THEN Denied(401, "missing token")
  ELSE IF Len(header.parts) < 2 THEN Denied(500, "server error")
  ELSE IF ~jwtVerify(header.parts[2], t) THEN Denied(500, "server error")
  ELSE IF payload(header.parts[2], "sub").typ # "string"
  THEN Denied(500, "server error")
  ELSE Granted(toLowerCase(header.parts[2].sub))

\* What a step answered to a request that came with `header`: the route,
\* the subject of an accepted token, the status, the error text and the
\* payload.
Answer(op, header, who, status, error, body) ==
  [op |-> op, header |-> header, who |-> who, status |-> status,
   error |-> error, body |-> body]

\* What a later step of a request answered, or did (status 0), for the
\* subject `who` of its token.
Outcome(op, who, status, error, body) ==
  [op |-> op, who |-> who, status |-> status, error |-> error, body |-> body]

(* ---------------------------- POST /auth/login ------------------------ *)

\* bcrypt.compare(password, hash) for a string password: the hash of the
\* password is the stored one.
bcryptCompare(password, hash) == hash = bcryptHash(password)

\* bcrypt.compare of bcryptjs rejects ("Illegal arguments") when the
\* password is not a string.
bcryptCompareThrows(password) == password.typ # "string"

\* Lines 277-311.  The client keeps the token of a successful login.
\* `email.toLowerCase()` throws for a body without a string email, and
\* bcrypt.compare for one without a string password; the catch of lines
\* 307-310 answers both with 500.
Login(email, password) ==
  LET user == findUserByEmail(users, email) IN
  /\ IF email.typ # "string"
     THEN /\ resp' = Answer("login", Undefined, email, 500, "server error", Null)
          /\ UNCHANGED tokens
     ELSE IF user = Null
     THEN /\ resp' = Answer("login", Undefined, email, 401, "invalid credentials", Null)
          /\ UNCHANGED tokens
     ELSE IF ~truthy(user.password_hash)
     THEN /\ resp' = Answer("login", Undefined, email, 400,
                            "Password not set. Please sign up or reset password.", Null)
          /\ UNCHANGED tokens
     ELSE IF bcryptCompareThrows(password)
     THEN /\ resp' = Answer("login", Undefined, email, 500, "server error", Null)
          /\ UNCHANGED tokens
     ELSE IF ~bcryptCompare(password, user.password_hash)
     THEN /\ resp' = Answer("login", Undefined, email, 401, "invalid credentials", Null)
          /\ UNCHANGED tokens
     ELSE LET token == signSession(toLowerCase(email), user.role, now) IN
          /\ tokens' = [tokens EXCEPT ![toLowerCase(email)] = token]
          /\ resp' = Answer("login", Undefined, email, 200, "", token)
  /\ UNCHANGED <<now, authVars, regVars, DEV_FALLBACK, poolVars, preq, notify,
               club_subscriptions, attempted>>

(* ------------------------------ POST /profile ------------------------- *)

\* `v || null`.
orNull(v) == IF truthy(v) THEN v ELSE Null

\* updateProfile whose request_admin branch grants the role at once.
updateProfileGrants(tbl, email, p) ==
  LET key == toLowerCase(email) IN
  IF tbl[key] = Null THEN tbl
  ELSE IF p.request_admin
  THEN [tbl EXCEPT ![key].name = p.name, ![key].branch = p.branch,
                   ![key].roll_number = p.roll_number,
                   ![key].club_id = p.club_id, ![key].admin_requested = TRUE,
                   ![key].role = Str(<<"club_admin">>)]
  ELSE IF truthy(p.role)
  THEN [tbl EXCEPT ![key].name = p.name, ![key].branch = p.branch,
                   ![key].roll_number = p.roll_number, ![key].role = p.role]
  ELSE [tbl EXCEPT ![key].name = p.name, ![key].branch = p.branch,
                   ![key].roll_number = p.roll_number]

\* updateProfile(email, {...}), db.js lines 127-156: one UPDATE, of the
\* columns the branch taken names.
updateProfile(tbl, email, p) ==
  LET key == toLowerCase(email) IN
  IF tbl[key] = Null THEN tbl
  ELSE IF p.request_admin
  THEN [tbl EXCEPT ![key].name = p.name, ![key].branch = p.branch,
                   ![key].roll_number = p.roll_number,
                   ![key].club_id = p.club_id, ![key].admin_requested = TRUE]
  ELSE IF truthy(p.role)
  THEN [tbl EXCEPT ![key].name = p.name, ![key].branch = p.branch,
                   ![key].roll_number = p.roll_number, ![key].role = p.role]
  ELSE [tbl EXCEPT ![key].name = p.name, ![key].branch = p.branch,
                   ![key].roll_number = p.roll_number]

\* A body of POST /profile.
ProfileBody(name, branch, roll_number, role, club_id) ==
  [name |-> name, branch |-> branch, roll_number |-> roll_number,
   role |-> role, club_id |-> club_id]

\* Lines 378-389: the token check and `await findUserByEmail(email)`.  Of
\* the row read the handler uses the role only, which is what the request
\* keeps as currentUser.
ProfileRead(r, header, body) ==
  LET auth == inlineAuth(header, now) IN
  /\ preq[r] = Idle
  /\ IF auth.status # 0
     THEN /\ resp' = Answer("profile", header, Undefined, auth.status, auth.error, Null)
          /\ UNCHANGED preq
     ELSE LET user == findUserByEmail(users, auth.email) IN
          /\ preq' = [preq EXCEPT ![r] =
                        [pc |-> "update", email |-> auth.email, body |-> body,
                         currentUser |-> IF user = Null THEN Null
                                         ELSE [role |-> user.role]]]
          /\ resp' = NoResp
  /\ UNCHANGED <<now, authVars, regVars, DEV_FALLBACK, poolVars, tokens, notify,
               club_subscriptions, attempted>>

\* Lines 391-423: the branch on the requested role and on the role read,
\* and the updateProfile call of the branch.  A request for another role
\* than student or club_admin by a user without a role updates nothing.
\* sendAdminRequestEmail, which the club_admin branch starts without
\* awaiting it, writes nothing.
ProfileUpdate(r) ==
  LET q == preq[r]
      b == q.body
      Columns(role, club_id, request_admin) ==
        [name |-> orNull(b.name), branch |-> orNull(b.branch),
         roll_number |-> orNull(b.roll_number), role |-> role,
         club_id |-> club_id, request_admin |-> request_admin]
  IN
  /\ q.pc = "update"
  /\ IF q.currentUser = Null
     THEN /\ resp' = Outcome("profile", q.email, 500, "server error", Null)
          /\ preq' = [preq EXCEPT ![r] = Idle]
          /\ UNCHANGED users
     ELSE /\ resp' = Outcome("profile-update", q.email, 0, "", b)
          /\ preq' = [preq EXCEPT ![r].pc = "reply"]
          /\ IF truthy(b.role) /\ ~truthy(q.currentUser.role)
             THEN IF b.role = Str(<<"student">>)
                  THEN users' = updateProfile(users, q.email,
                                  Columns(Str(<<"student">>), Null, FALSE))
                  ELSE IF b.role = Str(<<"club_admin">>)
                  THEN users' = updateProfile(users, q.email,
                                  Columns(Null, orNull(b.club_id), TRUE))
                  ELSE UNCHANGED users
             ELSE users' = updateProfile(users, q.email, Columns(Null, Null, FALSE))
  /\ UNCHANGED <<now, codeStore, vreq, issues, lastIssue, passes, regVars,
                 DEV_FALLBACK, poolVars, tokens, notify,
               club_subscriptions, attempted>>

\* Lines 425-433: `await findUserByEmail(email)` again, and the answer.
ProfileReply(r) ==
  LET q == preq[r] IN
  /\ q.pc = "reply"
  /\ resp' = Outcome("profile", q.email, 200, "", findUserByEmail(users, q.email))
  /\ preq' = [preq EXCEPT ![r] = Idle]
  /\ UNCHANGED <<now, authVars, regVars, DEV_FALLBACK, poolVars, tokens, notify,
               club_subscriptions, attempted>>

(* ------------------------------ /admin routes ------------------------- *)

\* GET /admin/pending-requests, lines 781-804: the rows with
\* admin_requested = true AND role IS NULL, as address and club_id.
pendingRequests(tbl) ==
  {[email |-> k, club_id |-> tbl[k].club_id] :
     k \in {j \in DOMAIN tbl : /\ tbl[j] # Null
                               /\ tbl[j].admin_requested
                               /\ tbl[j].role = Null}}

PendingRequests(header) ==
  LET gate == adminGate(header, now) IN
  /\ IF gate.status # 0
     THEN resp' = Answer("pending-requests", header, gate.email, gate.status,
                         gate.error, Null)
     ELSE resp' = Answer("pending-requests", header, gate.email, 200, "",
                         pendingRequests(users))
  /\ UNCHANGED <<now, authVars, regVars, sessVars>>

\* GET /admin/stats, lines 806-817: COUNT(*) of the rows with role club_admin.
adminCount(tbl) ==
  Cardinality({k \in DOMAIN tbl : tbl[k] # Null /\ tbl[k].role = Str(<<"club_admin">>)})

Stats(header) ==
  LET gate == adminGate(header, now) IN
  /\ IF gate.status # 0
     THEN resp' = Answer("stats", header, gate.email, gate.status, gate.error, Null)
     ELSE resp' = Answer("stats", header, gate.email, 200, "", adminCount(users))
  /\ UNCHANGED <<now, authVars, regVars, sessVars>>

\* POST /admin/approve-request, lines 819-842: one UPDATE of the row of the
\* address in the body, whatever its role and admin_requested are.
ApproveRequest(header, email) ==
  LET gate == adminGate(header, now) IN
  /\ IF gate.status # 0
     THEN /\ resp' = Answer("approve-request", header, gate.email, gate.status,
                            gate.error, email)
          /\ UNCHANGED users
     ELSE IF ~truthy(email)
     THEN /\ resp' = Answer("approve-request", header, gate.email, 400,
                            "Email required", email)
          /\ UNCHANGED users
     ELSE /\ resp' = Answer("approve-request", header, gate.email, 200, "", email)
          /\ users' = IF users[toLowerCase(email)] = Null THEN users
                      ELSE [users EXCEPT
                              ![toLowerCase(email)].role = Str(<<"club_admin">>),
                              ![toLowerCase(email)].admin_requested = FALSE]
  /\ UNCHANGED <<now, codeStore, vreq, issues, lastIssue, passes, regVars, sessVars>>

\* sendAdminRequestEmail, lines 874-905, called by POST /profile for a
\* club_admin request: the token in the links of the mail to the
\* coordinator, or Null when no mail is built.  With a club_id the club name
\* is asked for with pool.execute first, which throws into the catch of
\* the function.
sendAdminRequestEmail(userEmail, clubId, t) ==
  IF truthy(clubId) /\ ~poolHas("execute") THEN Null
  ELSE signAction(userEmail, clubId, t)

\* Lines 1169-1172 and 1304-1307: ... AND admin_requested = 1 AND role IS
\* NULL.
stillRequested(row) == row # Null /\ row.admin_requested /\ row.role = Null

\* GET /admin/approve-via-email and /admin/reject-via-email, lines
\* 1110-1265 and 1267-1380.  Both verify the token of the link with
\* JWT_SECRET and read `email` from its payload; email.toLowerCase() throws
\* for a payload without one, and pool.execute for every other, into the
\* catch that answers 500.
ViaEmail(op, token) ==
  LET email == payload(token, "email")
      key == toLowerCase(email)
  IN
  /\ IF ~truthy(token)
     THEN resp' = Answer(op, token, Undefined, 400, "Invalid link", Null) /\ UNCHANGED users
     ELSE IF ~jwtVerify(token, now)
     THEN resp' = Answer(op, token, Undefined, 401, "Invalid or expired link", Null)
          /\ UNCHANGED users
     ELSE IF email.typ # "string" \/ ~poolHas("execute")
     THEN resp' = Answer(op, token, email, 500, "Error", Null) /\ UNCHANGED users
     ELSE IF ~stillRequested(users[key])
     THEN resp' = Answer(op, token, email, 404, "Request not found", Null)
          /\ UNCHANGED users
     ELSE /\ resp' = Answer(op, token, email, 200, "", Null)
          /\ users' = IF op = "approve-via-email"
                      THEN [users EXCEPT ![key].role = Str(<<"club_admin">>),
                                         ![key].admin_requested = FALSE]
                      ELSE [users EXCEPT ![key].admin_requested = FALSE,
                                         ![key].club_id = Null]
  /\ UNCHANGED <<now, codeStore, vreq, issues, lastIssue, passes, regVars, sessVars>>

\* POST /admin/reject-request, lines 844-868.  The UPDATE is sent with
\* pool.execute, which the pool of db.js (a pg Pool behind `query` and
\* `connect`) does not have: the call throws and the catch answers 500.
RejectRequest(header, email) ==
  LET gate == adminGate(header, now) IN
  /\ IF gate.status # 0
     THEN resp' = Answer("reject-request", header, gate.email, gate.status,
                         gate.error, email)
     ELSE IF ~truthy(email)
     THEN resp' = Answer("reject-request", header, gate.email, 400,
                         "Email required", email)
     ELSE resp' = Answer("reject-request", header, gate.email, 500,
                         "Failed to reject", email)
  /\ UNCHANGED <<now, authVars, regVars, sessVars>>

(* --------------------------- POST /announcements ---------------------- *)

\* A multipart field holding a date the Date constructor can parse.
DateString(t) == [typ |-> "string", date |-> t]

NaN == [typ |-> "NaN"]

\* parseInt of a string of one decimal digit.
parseInt(s) ==
  CASE s = Str(<<"0">>) -> Num(0)
    [] s = Str(<<"1">>) -> Num(1)
    [] s = Str(<<"2">>) -> Num(2)
    [] s = Str(<<"3">>) -> Num(3)
    [] s = Str(<<"4">>) -> Num(4)
    [] OTHER -> NaN

DigitString(n) ==
  CASE n = 0 -> Str(<<"0">>)
    [] n = 1 -> Str(<<"1">>)
    [] n = 2 -> Str(<<"2">>)
    [] n = 3 -> Str(<<"3">>)
    [] OTHER -> Str(<<"4">>)

\* The multipart fields of POST /announcements.
EnabledInputs == {Undefined, Str(<<"t", "r", "u", "e">>), Str(<<"f", "a", "l", "s", "e">>)}

DeadlineInputs == {Undefined, DateString(1)}

MaxInputs == {Undefined, Num(0)} \cup {DigitString(n) : n \in 0..MaxCap}

\* Lines 2074-2081.
parseRegEnabled(raw) ==
  \/ raw = Str(<<"t", "r", "u", "e">>)
  \/ raw = Bool(TRUE)
  \/ raw = Num(1)
  \/ raw = Str(<<"1">>)

\* Lines 2084-2097: the deadline as a time, or Null.
parseRegDeadline(raw) ==
  IF truthy(raw) THEN Num(raw.date) ELSE Null

\* Lines 2100-2107: isNaN(maxReg) gives null.
parseMaxReg(raw) ==
  IF truthy(raw) /\ parseInt(raw) # NaN THEN parseInt(raw) ELSE Null

\* The role test of POST /announcements made on the role in the token.
createAllowedByToken(user, token) ==
  token.role = Str(<<"club_admin">>) /\ truthy(user.club_id)

\* Lines 2065-2068: the test is made on the row findUserByEmail returned;
\* the payload of the token is used for its subject only.
createAllowed(user, token) ==
  user.role = Str(<<"club_admin">>) /\ truthy(user.club_id)

\* Lines 2036-2168.  The handler checks the token itself (inlineAuth), reads
\* the row of the subject, and inserts the announcement with the club_id of
\* that row and the subject as created_by; requests carry a title and a
\* content, and is_active takes its default.  It then calls
\* notifySubscribers without awaiting it and answers: the call has run up
\* to its first await, in getClubById.  A subject without a row makes
\* `user.role` throw, which the catch answers with 500.
CreateAnnouncement(header, enabledRaw, deadlineRaw, maxRaw) ==
  LET auth == inlineAuth(header, now)
      user == findUserByEmail(users, auth.email)
  IN
  /\ ann = Null
  /\ IF auth.status # 0
     THEN /\ resp' = Answer("create", header, Undefined, auth.status, auth.error, Null)
          /\ UNCHANGED <<ann, notify>>
     ELSE IF user = Null
     THEN /\ resp' = Answer("create", header, auth.email, 500, "server error", Null)
          /\ UNCHANGED <<ann, notify>>
     ELSE IF ~createAllowed(user, header.parts[2])
     THEN /\ resp' = Answer("create", header, auth.email, 403,
                            "only club admins can create announcements", Null)
          /\ UNCHANGED <<ann, notify>>
     ELSE /\ ann' = [club_id |-> user.club_id,
                     title |-> Str(<<"t">>), content |-> Str(<<"c">>),
                     created_by |-> auth.email, is_active |-> TRUE,
                     registration_enabled |-> parseRegEnabled(enabledRaw),
                     registration_deadline |-> parseRegDeadline(deadlineRaw),
                     max_registrations |-> parseMaxReg(maxRaw)]
          /\ notify' = "club"
          /\ resp' = Answer("create", header, auth.email, 200, "", ann')
  /\ overlap' = [r \in RegReqs |-> overlap[r] \/ rreq[r] # Idle]
  /\ UNCHANGED <<now, authVars, regs, rreq, DEV_FALLBACK, poolVars, tokens, preq,
               club_subscriptions, attempted>>

(* ---------------------- DELETE and PUT /announcements/:id ------------- *)

\* A WHERE clause without its created_by test.
createdByAnyone(announcement, userEmail) == TRUE

\* db.js lines 254 and 265: ... WHERE id=$1 AND created_by=$2.
createdBy(announcement, userEmail) == announcement.created_by = userEmail

\* deleteAnnouncement, db.js lines 252-258: one UPDATE that sets is_active;
\* the row and whether a row matched.
deleteAnnouncement(announcement, userEmail) ==
  IF announcement # Null /\ createdBy(announcement, userEmail)
  THEN [row |-> [announcement EXCEPT !.is_active = FALSE], success |-> TRUE]
  ELSE [row |-> announcement, success |-> FALSE]

\* updateAnnouncement, db.js lines 260-268.
updateAnnouncement(announcement, title, content, userEmail) ==
  IF announcement # Null /\ createdBy(announcement, userEmail)
  THEN [row |-> [announcement EXCEPT !.title = title, !.content = content],
        success |-> TRUE]
  ELSE [row |-> announcement, success |-> FALSE]

\* DELETE /announcements/:id for announcement 1, lines 727-748.
DeleteAnnouncement(header) ==
  LET auth == inlineAuth(header, now)
      done == deleteAnnouncement(ann, auth.email)
  IN
  /\ IF auth.status # 0
     THEN /\ resp' = Answer("delete", header, Undefined, auth.status, auth.error, Null)
          /\ UNCHANGED ann
     ELSE IF ~done.success
     THEN /\ resp' = Answer("delete", header, auth.email, 404,
                            "announcement not found or unauthorized", Null)
          /\ UNCHANGED ann
     ELSE /\ resp' = Answer("delete", header, auth.email, 200, "", Null)
          /\ ann' = done.row
  /\ UNCHANGED <<now, authVars, regs, rreq, overlap, sessVars>>

\* PUT /announcements/:id for announcement 1, lines 750-777.
PutAnnouncement(header, title, content) ==
  LET auth == inlineAuth(header, now)
      done == updateAnnouncement(ann, title, content, auth.email)
  IN
  /\ IF auth.status # 0
     THEN /\ resp' = Answer("put", header, Undefined, auth.status, auth.error, Null)
          /\ UNCHANGED ann
     ELSE IF ~truthy(title) \/ ~truthy(content)
     THEN /\ resp' = Answer("put", header, auth.email, 400,
                            "title and content required", Null)
          /\ UNCHANGED ann
     ELSE IF ~done.success
     THEN /\ resp' = Answer("put", header, auth.email, 404,
                            "announcement not found or unauthorized", Null)
          /\ UNCHANGED ann
     ELSE /\ resp' = Answer("put", header, auth.email, 200, "", Null)
          /\ ann' = done.row
  /\ UNCHANGED <<now, authVars, regs, rreq, overlap, sessVars>>

\* GET /announcements, lines 471-503: the SELECT has no WHERE clause.
ListAnnouncements ==
  /\ resp' = Outcome("list", Undefined, 200, "",
                     IF ann = Null THEN {} ELSE {ann})
  /\ UNCHANGED <<now, authVars, regVars, sessVars>>

(* ----------------------------- notifySubscribers ---------------------- *)

\* Lines 1541-1543: `await getClubById(clubId)` and `if (!club) return`;
\* `found` is whether table clubs has an active row of the club.
NotifyClub(found) ==
  /\ notify = "club"
  /\ notify' = IF found THEN "load" ELSE "returned"
  /\ resp' = NoResp
  /\ UNCHANGED <<now, authVars, regVars, DEV_FALLBACK, poolVars, tokens, preq,
               club_subscriptions, attempted>>

\* The users with an active subscription to the club (the SELECT of lines
\* 1546-1551).
subscribersOf(tbl, club_id) ==
  {row.user : row \in {r \in tbl : r.club_id = club_id}}

\* Lines 1546-1711.  The subscribers are asked for with pool.execute; a
\* call of a method the pool does not have throws a TypeError, which the
\* catch of lines 1706-1709 logs without throwing.  Otherwise one mail per
\* subscriber is handed to sendEmailWrapper, each promise with a catch of
\* its own, so a failed delivery changes the log only.
NotifyLoad ==
  /\ notify = "load"
  /\ IF ~poolHas("execute")
     THEN /\ notify' = "failed"
          /\ attempted' = attempted
     ELSE /\ notify' = "returned"
          /\ attempted' = attempted \cup subscribersOf(club_subscriptions, ann.club_id)
  /\ resp' = NoResp
  /\ UNCHANGED <<now, authVars, regVars, DEV_FALLBACK, poolVars, tokens, preq,
                 club_subscriptions>>

(* ------------- POST /clubs/:clubId/subscribe and /unsubscribe --------- *)

\* Lines 1382-1430.  `found` is whether getClubById finds the club.  The
\* statements on club_subscriptions are sent with pool.execute: the first
\* of them throws into the catch of the handler.  With a pool that had the
\* method, the user would have one active row for the club afterwards.
Subscribe(header, club_id, found) ==
  LET auth == authMiddleware(header, now)
      user == findUserByEmail(users, auth.email)
      Deny(status, error) ==
        /\ resp' = Answer("subscribe", header, auth.email, status, error, club_id)
        /\ UNCHANGED club_subscriptions
  IN
  /\ IF auth.status # 0 THEN Deny(auth.status, auth.error)
     ELSE IF auth.email.typ # "string" THEN Deny(500, "Failed to subscribe")
     ELSE IF user = Null THEN Deny(404, "User not found")
     ELSE IF ~found THEN Deny(404, "Club not found")
     ELSE IF ~poolHas("execute") THEN Deny(500, "Failed to subscribe")
     ELSE /\ resp' = Answer("subscribe", header, auth.email, 200, "", club_id)
          /\ club_subscriptions' =
               club_subscriptions \cup {[user |-> auth.email, club_id |-> club_id]}
  /\ UNCHANGED <<now, authVars, regVars, DEV_FALLBACK, poolVars, tokens, preq,
               notify, attempted>>

\* Lines 1433-1460: the UPDATE that sets is_active = 0, sent with
\* pool.execute as well.
Unsubscribe(header, club_id) ==
  LET auth == authMiddleware(header, now)
      user == findUserByEmail(users, auth.email)
      Deny(status, error) ==
        /\ resp' = Answer("unsubscribe", header, auth.email, status, error, club_id)
        /\ UNCHANGED club_subscriptions
  IN
  /\ IF auth.status # 0 THEN Deny(auth.status, auth.error)
     ELSE IF auth.email.typ # "string" THEN Deny(500, "Failed to unsubscribe")
     ELSE IF user = Null THEN Deny(404, "User not found")
     ELSE IF ~poolHas("execute") THEN Deny(500, "Failed to unsubscribe")
     ELSE /\ resp' = Answer("unsubscribe", header, auth.email, 200, "", club_id)
          /\ club_subscriptions' =
               club_subscriptions \ {[user |-> auth.email, club_id |-> club_id]}
  /\ UNCHANGED <<now, authVars, regVars, DEV_FALLBACK, poolVars, tokens, preq,
               notify, attempted>>

(* ------------- GET /announcements/:announcementId/registrations ------- *)

\* A club test that every club admin passes.
ownsAnnouncementAny(user, announcement) == TRUE

\* Lines 1943 and 1993: user.club_id !== announcement[0].club_id.
ownsAnnouncement(user, announcement) == user.club_id = announcement.club_id

\* Lines 1923-1975: authMiddleware, the row of the subject, the
\* announcement row, and the rows of event_registrations as the answer.
Roster(header) ==
  LET auth == authMiddleware(header, now)
      user == findUserByEmail(users, auth.email)
      Deny(status, error) ==
        resp' = Answer("registrations", header, auth.email, status, error, Null)
  IN
  /\ IF auth.status # 0 THEN Deny(auth.status, auth.error)
     ELSE IF auth.email.typ # "string" THEN Deny(500, "Failed to fetch registrations")
     ELSE IF user = Null THEN Deny(500, "Failed to fetch registrations")
     ELSE IF user.role # Str(<<"club_admin">>)
     THEN Deny(403, "Only club admins can view registrations")
     ELSE IF ann = Null THEN Deny(404, "Event not found")
     ELSE IF ~ownsAnnouncement(user, ann)
     THEN Deny(403, "You can only view registrations for your club events")
     ELSE resp' = Answer("registrations", header, auth.email, 200, "", regs)
  /\ UNCHANGED <<now, authVars, regVars, sessVars>>

\* Lines 1978-2032, the CSV export: the same rows, behind the same tests,
\* with one answer for a missing announcement and for another club's.
RosterExport(header) ==
  LET auth == authMiddleware(header, now)
      user == findUserByEmail(users, auth.email)
      Deny(status, error) ==
        resp' = Answer("export", header, auth.email, status, error, Null)
  IN
  /\ IF auth.status # 0 THEN Deny(auth.status, auth.error)
     ELSE IF auth.email.typ # "string" THEN Deny(500, "Failed to export")
     ELSE IF user = Null THEN Deny(500, "Failed to export")
     ELSE IF user.role # Str(<<"club_admin">>)
     THEN Deny(403, "Only club admins can export registrations")
     ELSE IF ann = Null \/ ~ownsAnnouncement(user, ann)
     THEN Deny(403, "Unauthorized")
     ELSE resp' = Answer("export", header, auth.email, 200, "", regs)
  /\ UNCHANGED <<now, authVars, regVars, sessVars>>

(* ----------------- POST /announcements/:announcementId/register ------- *)

\* Table event_registrations for announcement 1: regs[u] holds the status
\* of the rows of user u, oldest first; a row's place stands for its id.

\* SELECT COUNT(*) ... WHERE announcement_id = $1 AND status = 'registered'.
registeredCount(tbl) ==
  Cardinality(UNION {{<<u, i>> : i \in {j \in DOMAIN tbl[u] : tbl[u][j] = "registered"}} :
                       u \in DOMAIN tbl})

\* The capacity test with > for >=.
eventFullAbove(count, max) == count > max.val

\* Line 1774: countResult[0].count >= announcement.max_registrations.
eventFull(count, max) == count >= max.val

\* The deadline test with >= for >.
deadlinePassedAtDeadline(t, deadline) == t >= deadline.val

\* Line 1761: new Date() > deadline.
deadlinePassed(t, deadline) == t > deadline.val

\* A table without the UNIQUE constraint.
uniqueViolationNever(tbl, u) == FALSE

\* Schema line 2281, UNIQUE(announcement_id, user_id): the INSERT of a row
\* for u is refused when u has a row.
uniqueViolation(tbl, u) == Len(tbl[u]) >= 1

Reply(u, status, error) == Resp("register", u, Null, Null, Null, status, error)

\* The history of a request that starts in slot r, and of those in flight.
Overlapping(r) ==
  [q \in RegReqs |-> IF q = r THEN \E p \in RegReqs \ {r} : rreq[p] # Idle
                     ELSE overlap[q] \/ rreq[q] # Idle]

\* Lines 1729-1764 and 1806-1813: the token check, findUserByEmail, the
\* announcement row and the checks on it.  With no max_registrations the
\* handler answers here.
RegisterStart(r, u) ==
  /\ rreq[r] = Idle
  /\ findUserByEmail(users, u) # Null
  /\ IF ann = Null
     THEN /\ resp' = Reply(u, 404, "Event not found")
          /\ UNCHANGED <<rreq, overlap>>
     ELSE IF ~ann.registration_enabled
     THEN /\ resp' = Reply(u, 400, "Registration not enabled for this event")
          /\ UNCHANGED <<rreq, overlap>>
     ELSE IF truthy(ann.registration_deadline)
             /\ deadlinePassed(now, ann.registration_deadline)
     THEN /\ resp' = Reply(u, 400, "Registration deadline has passed")
          /\ UNCHANGED <<rreq, overlap>>
     ELSE IF truthy(ann.max_registrations)
     THEN /\ rreq' = [rreq EXCEPT ![r] = [pc |-> "count", user |-> u]]
          /\ overlap' = Overlapping(r)
          /\ resp' = NoResp
     ELSE /\ resp' = Reply(u, 200, "")
          /\ UNCHANGED <<rreq, overlap>>
  /\ UNCHANGED <<sessVars, now, authVars, ann, regs>>

\* Lines 1767-1777: the capacity query and its test.
RegisterCount(r) ==
  /\ rreq[r].pc = "count"
  /\ IF eventFull(registeredCount(regs), ann.max_registrations)
     THEN /\ resp' = Reply(rreq[r].user, 400, "Event is full. Maximum registrations reached.")
          /\ rreq' = [rreq EXCEPT ![r] = Idle]
          /\ overlap' = [overlap EXCEPT ![r] = FALSE]
     ELSE /\ resp' = NoResp
          /\ rreq' = [rreq EXCEPT ![r] = [pc |-> "existing", user |-> rreq[r].user]]
          /\ UNCHANGED overlap
  /\ UNCHANGED <<sessVars, now, authVars, ann, regs>>

\* Lines 1781-1789: the rows of (announcement, user); existing[0] decides.
RegisterExisting(r) ==
  LET existing == regs[rreq[r].user] IN
  /\ rreq[r].pc = "existing"
  /\ IF Len(existing) > 0 /\ existing[1] = "registered"
     THEN /\ resp' = Reply(rreq[r].user, 400, "Already registered for this event")
          /\ rreq' = [rreq EXCEPT ![r] = Idle]
          /\ overlap' = [overlap EXCEPT ![r] = FALSE]
     ELSE /\ resp' = NoResp
          /\ rreq' = [rreq EXCEPT ![r] = [pc |-> "write", user |-> rreq[r].user,
                                          existing |-> Len(existing) > 0]]
          /\ UNCHANGED overlap
  /\ UNCHANGED <<sessVars, now, authVars, ann, regs>>

\* Lines 1790-1813: the UPDATE of the row existing[0], or the INSERT.
RegisterWrite(r) ==
  LET u == rreq[r].user IN
  /\ rreq[r].pc = "write"
  /\ rreq' = [rreq EXCEPT ![r] = Idle]
  /\ overlap' = [overlap EXCEPT ![r] = FALSE]
  /\ IF rreq[r].existing
     THEN /\ regs' = [regs EXCEPT ![u][1] = "registered"]
          /\ resp' = Reply(u, 200, "")
     ELSE IF uniqueViolation(regs, u)
     THEN /\ resp' = Reply(u, 500, "Failed to register")
          /\ UNCHANGED regs
     ELSE /\ regs' = [regs EXCEPT ![u] = Append(regs[u], "registered")]
          /\ resp' = Reply(u, 200, "")
  /\ UNCHANGED <<sessVars, now, authVars, ann>>

(* ---------------- POST /announcements/:announcementId/unregister ------ *)

\* The UPDATE without its status test.
unregisterMatchesAny(status) == TRUE

\* Line 1834: ... AND status = 'registered'.
unregisterMatches(status) == status = "registered"

\* Lines 1821-1853: one UPDATE of the rows it matches; rowCount decides.
Unregister(u) ==
  LET rowCount == Cardinality({i \in DOMAIN regs[u] : unregisterMatches(regs[u][i])}) IN
  /\ findUserByEmail(users, u) # Null
  /\ regs' = [regs EXCEPT ![u] =
                [i \in DOMAIN regs[u] |->
                   IF unregisterMatches(regs[u][i]) THEN "cancelled" ELSE regs[u][i]]]
  /\ IF rowCount = 0
     THEN resp' = Resp("unregister", u, Null, Null, Null, 404, "Registration not found")
     ELSE resp' = Resp("unregister", u, Null, Null, Null, 200, "")
  /\ overlap' = [r \in RegReqs |-> overlap[r] \/ rreq[r] # Idle]
  /\ UNCHANGED <<sessVars, now, authVars, ann, rreq>>

\* GET /announcements/:announcementId/registration-status, lines 1866-1874:
\* registrations.length > 0 && registrations[0].status === 'registered'.
registrationStatus(tbl, u) == Len(tbl[u]) > 0 /\ tbl[u][1] = "registered"

\* Line 1909: announcement.registration_enabled === 1.  The column is a
\* BOOLEAN (schema line 2256), which pg hands over as a JavaScript boolean,
\* and === between a boolean and a number is false.
strictEquals(v, w) == v.typ = w.typ /\ v.val = w.val

\* `a && b` of JavaScript: a when a is falsy, b otherwise.
andThen(a, b) == IF truthy(a) THEN b ELSE a

\* GET /announcements/:announcementId/registration-info, lines 1882-1920.
\* The columns it reads from announcements are written by the INSERT only,
\* so its two queries are one step, taken at the COUNT.  pg hands COUNT(*),
\* a bigint, over as a string, which >= compares as a number.
RegistrationInfo ==
  LET currentCount == registeredCount(regs) IN
  /\ resp' = IF ann = Null
             THEN Outcome("registration-info", Undefined, 404, "Event not found", Null)
             ELSE Outcome("registration-info", Undefined, 200, "",
                    [registration_enabled |->
                       Bool(strictEquals(Bool(ann.registration_enabled), Num(1))),
                     current_count |-> DigitString(currentCount),
                     max_registrations |-> ann.max_registrations,
                     is_full |->
                       andThen(ann.max_registrations,
                               Bool(currentCount >= ann.max_registrations.val)),
                     deadline |-> ann.registration_deadline,
                     deadline_passed |->
                       andThen(ann.registration_deadline,
                               Bool(now > ann.registration_deadline.val))])
  /\ UNCHANGED <<now, authVars, regVars, sessVars>>

(* --------------------------- specifications --------------------------- *)

UserKeys == Keys \cup {Str(<<"c">>)}

\* The addresses that may have a row in users: those, and the coordinator's.
Accounts == UserKeys \cup {coordinatorEmail}

InitAuth ==
  /\ codeStore = [k \in Keys |-> Undefined]
  /\ users = [k \in Accounts |-> Null]
  /\ vreq = [r \in VerifyReqs |-> Idle]
  /\ issues = 0
  /\ lastIssue = [k \in Keys |-> Undefined]
  /\ passes = [k \in Keys |-> 0]

InitRegIdle ==
  /\ ann = Null
  /\ regs = [u \in UserKeys |-> <<>>]
  /\ rreq = [r \in RegReqs |-> Idle]
  /\ overlap = [r \in RegReqs |-> FALSE]

\* No session token issued, no profile request in flight, no announcement
\* to notify of.
InitSessIdle ==
  /\ tokens = [u \in Accounts |-> Undefined]
  /\ preq = [r \in ProfileReqs |-> Idle]
  /\ notify = "none"
  /\ club_subscriptions = {}
  /\ attempted = {}

Init ==
  /\ now = 0
  /\ resp = NoResp
  /\ InitAuth
  /\ InitRegIdle
  /\ InitSessIdle
  /\ DEV_FALLBACK = FALSE
  /\ InitPool

\* The OTP ledger under every spelling of the addresses and every kind of
\* submitted code; the verify requests carry no password.
NextAuth ==
  \/ Tick
  \/ \E email \in EmailInputs, code \in generateCode : SendCode(email, code, TRUE)
  \/ \E r \in VerifyReqs, email \in EmailInputs, code \in CodeInputs :
       VerifyValidate(r, email, code, Undefined, Undefined)
  \/ \E r \in VerifyReqs : VerifyFind(r)
  \/ \E r \in VerifyReqs : VerifyFinish(r, Undefined, Undefined)

SpecAuth == Init /\ [][NextAuth]_vars

\* /auth/verify under every kind of password and confirm, for one address.
VerifyEmails == {Str(<<"a">>)}

NextVerify ==
  \/ Tick
  \/ \E email \in VerifyEmails, code \in generateCode : SendCode(email, code, TRUE)
  \/ \E r \in VerifyReqs, email \in VerifyEmails,
        code \in generateCode \cup {Undefined},
        password \in PasswordInputs, confirm \in ConfirmInputs :
       VerifyValidate(r, email, code, password, confirm)
  \/ \E r \in VerifyReqs : VerifyFind(r)
  \/ \E r \in VerifyReqs, password \in PasswordInputs, confirm \in ConfirmInputs :
       VerifyFinish(r, password, confirm)

SpecVerify == Init /\ [][NextVerify]_vars

\* Sign-up, password reset and login of one address.  /auth/verify sets
\* no password, a short one, or one of two long ones; /auth/login is sent
\* every spelling of the address, an unknown address, a body without
\* email, and every kind of password.
SetPasswords ==
  {Str(<<"s", "e", "c", "r", "e", "t">>), LongPassword("a"), LongPassword("b")}

LoginEmails == {Str(<<"a">>), Str(<<"A">>), Str(<<"b">>), Undefined}

LoginPasswords ==
  SetPasswords \cup {Str(<<"s", "e", "c", "r", "e", "T">>), Undefined, Num(1234567)}

NextLogin ==
  \/ \E code \in generateCode : SendCode(Str(<<"a">>), code, TRUE)
  \/ \E r \in {1}, code \in generateCode,
        password \in SetPasswords \cup {Undefined} :
       VerifyValidate(r, Str(<<"a">>), code, password, password)
  \/ \E r \in {1} : VerifyFind(r)
  \/ \E r \in {1}, password \in SetPasswords \cup {Undefined} :
       VerifyFinish(r, password, password)
  \/ \E email \in LoginEmails, password \in LoginPasswords : Login(email, password)

SpecLogin == Init /\ [][NextLogin]_vars

\* /auth/send-code with DEV_FALLBACK set or not in the environment, under
\* every outcome of the delivery, for bodies with and without an address.
IssueEmails == {Str(<<"a">>), Str(<<"A">>), Undefined, Num(7)}

InitIssue ==
  /\ now = 0
  /\ resp = NoResp
  /\ InitAuth
  /\ InitRegIdle
  /\ InitSessIdle
  /\ DEV_FALLBACK \in BOOLEAN
  /\ InitPool

NextIssue ==
  \/ Tick
  \/ \E email \in IssueEmails, code \in generateCode, delivered \in BOOLEAN :
       SendCode(email, code, delivered)
  \/ \E r \in VerifyReqs, email \in VerifyEmails, code \in generateCode :
       VerifyValidate(r, email, code, Undefined, Undefined)
  \/ \E r \in VerifyReqs : VerifyFind(r)
  \/ \E r \in VerifyReqs : VerifyFinish(r, Undefined, Undefined)

SpecIssue == InitIssue /\ [][NextIssue]_vars

\* The registration routes: three accounts exist, two students and the
\* admin of club 1, and no announcement yet.
Account(role, club_id) ==
  [password_hash |-> Null, role |-> role, club_id |-> club_id,
   admin_requested |-> FALSE,
   name |-> Null, branch |-> Null, roll_number |-> Null]

InitReg ==
  /\ now = 0
  /\ resp = NoResp
  /\ codeStore = [k \in Keys |-> Undefined]
  /\ users = [k \in Accounts |->
               IF k = Str(<<"c">>) THEN Account(Str(<<"club_admin">>), Num(1))
               ELSE IF k = coordinatorEmail THEN Null
               ELSE Account(Str(<<"student">>), Null)]
  /\ vreq = [r \in VerifyReqs |-> Idle]
  /\ issues = 0
  /\ lastIssue = [k \in Keys |-> Undefined]
  /\ passes = [k \in Keys |-> 0]
  /\ InitRegIdle
  /\ InitSessIdle
  /\ DEV_FALLBACK = FALSE
  /\ InitPool

NextReg ==
  \/ Tick
  \/ \E email \in UserKeys, enabledRaw \in EnabledInputs,
        deadlineRaw \in DeadlineInputs, maxRaw \in MaxInputs :
       CreateAnnouncement(Header("Bearer", signSession(email, users[email].role, now)),
                          enabledRaw, deadlineRaw, maxRaw)
  \/ \E r \in RegReqs, u \in UserKeys : RegisterStart(r, u)
  \/ \E r \in RegReqs : RegisterCount(r)
  \/ \E r \in RegReqs : RegisterExisting(r)
  \/ \E r \in RegReqs : RegisterWrite(r)
  \/ \E u \in UserKeys : Unregister(u)

SpecReg == InitReg /\ [][NextReg]_vars

\* The registration routes with one register request at a time, and
\* registration-info asked for at any moment.
NextInfo ==
  \/ Tick
  \/ \E enabledRaw \in EnabledInputs, deadlineRaw \in DeadlineInputs,
        maxRaw \in MaxInputs :
       CreateAnnouncement(Header("Bearer", signSession(Str(<<"c">>),
                                                       users[Str(<<"c">>)].role, now)),
                          enabledRaw, deadlineRaw, maxRaw)
  \/ \E u \in UserKeys : RegisterStart(1, u)
  \/ RegisterCount(1)
  \/ RegisterExisting(1)
  \/ RegisterWrite(1)
  \/ \E u \in UserKeys : Unregister(u)
  \/ RegistrationInfo

SpecInfo == InitReg /\ [][NextInfo]_vars

\* The life of an announcement.  a and c are admins of club 1, b is a
\* student; each request comes with a fresh token of its sender, with a
\* token signed by somebody else, or without one.
InitOwner ==
  /\ now = 0
  /\ resp = NoResp
  /\ codeStore = [k \in Keys |-> Undefined]
  /\ users = [k \in Accounts |->
               IF k \in {Str(<<"a">>), Str(<<"c">>)}
               THEN Account(Str(<<"club_admin">>), Num(1))
               ELSE IF k = coordinatorEmail THEN Null
               ELSE Account(Str(<<"student">>), Null)]
  /\ vreq = [r \in VerifyReqs |-> Idle]
  /\ issues = 0
  /\ lastIssue = [k \in Keys |-> Undefined]
  /\ passes = [k \in Keys |-> 0]
  /\ InitRegIdle
  /\ InitSessIdle
  /\ DEV_FALLBACK = FALSE
  /\ InitPool

OwnerHeaders ==
  {Undefined, Header("Bearer", forgedSession(Str(<<"c">>), Str(<<"club_admin">>), now))}
    \cup {Header("Bearer", signSession(u, users[u].role, now)) : u \in UserKeys}

TextInputs == {Undefined, Str(<<"u">>)}

NextOwner ==
  \/ \E u \in {Str(<<"a">>), Str(<<"c">>)}, maxRaw \in {Undefined, DigitString(2)} :
       CreateAnnouncement(Header("Bearer", signSession(u, users[u].role, now)),
                          Str(<<"t", "r", "u", "e">>), Undefined, maxRaw)
  \/ \E header \in OwnerHeaders : DeleteAnnouncement(header)
  \/ \E header \in OwnerHeaders, title \in TextInputs, content \in TextInputs :
       PutAnnouncement(header, title, content)
  \/ ListAnnouncements
  \/ \E u \in UserKeys : RegisterStart(1, u)
  \/ RegisterCount(1)
  \/ RegisterExisting(1)
  \/ RegisterWrite(1)
  \/ \E u \in UserKeys : Unregister(u)

SpecOwner == InitOwner /\ [][NextOwner]_vars

\* The profile and /admin routes.  Three accounts exist, each with a
\* password: a, which has no role yet, c, the admin of club 1, and the
\* coordinator, who has no role.  Each has logged in and holds its token.
Clients == {Str(<<"a">>), Str(<<"c">>), coordinatorEmail}

Password == Str(<<"s", "e", "c", "r", "e", "t">>)

ProfileAccount(role, club_id) ==
  [Account(role, club_id) EXCEPT !.password_hash = bcryptHash(Password)]

InitAccounts ==
  /\ now = 0
  /\ resp = NoResp
  /\ codeStore = [k \in Keys |-> Undefined]
  /\ users = [k \in Accounts |->
               IF k = Str(<<"a">>) THEN ProfileAccount(Null, Null)
               ELSE IF k = Str(<<"c">>)
               THEN ProfileAccount(Str(<<"club_admin">>), Num(1))
               ELSE IF k = coordinatorEmail THEN ProfileAccount(Null, Null)
               ELSE Null]
  /\ vreq = [r \in VerifyReqs |-> Idle]
  /\ issues = 0
  /\ lastIssue = [k \in Keys |-> Undefined]
  /\ passes = [k \in Keys |-> 0]
  /\ InitRegIdle
  /\ DEV_FALLBACK = FALSE
  /\ InitPool

InitProfile ==
  /\ InitAccounts
  /\ tokens = [u \in Accounts |->
                IF u \in Clients THEN signSession(u, users[u].role, now)
                ELSE Undefined]
  /\ preq = [r \in ProfileReqs |-> Idle]
  /\ notify = "none"
  /\ club_subscriptions = {}
  /\ attempted = {}

HeldTokens == {tokens[u] : u \in {v \in Accounts : tokens[v] # Undefined}}

HeldHeaders == {Header("Bearer", token) : token \in HeldTokens}

\* The headers of the clients that post their profile.
ProfileHeaders ==
  {Header("Bearer", tokens[u]) :
     u \in {v \in {Str(<<"a">>), Str(<<"c">>)} : tokens[v] # Undefined}}

\* The bodies of POST /profile: an edit of the three text fields, and the
\* requests for the role student, for club_admin with and without a club,
\* and for a role that does not exist.
ProfileBodies ==
  {ProfileBody(Str(<<"n">>), Str(<<"c", "s">>), Str(<<"7">>), Undefined, Undefined),
   ProfileBody(Undefined, Undefined, Undefined, Str(<<"student">>), Undefined),
   ProfileBody(Str(<<"n">>), Str(<<"c", "s">>), Str(<<"7">>), Str(<<"club_admin">>), Num(2)),
   ProfileBody(Undefined, Undefined, Undefined, Str(<<"club_admin">>), Undefined),
   ProfileBody(Str(<<"n">>), Str(<<"c", "s">>), Str(<<"7">>), Str(<<"coordinator">>), Num(2))}

NextProfile ==
  \/ \E r \in ProfileReqs, header \in ProfileHeaders, body \in ProfileBodies :
       ProfileRead(r, header, body)
  \/ \E r \in ProfileReqs : ProfileUpdate(r)
  \/ \E r \in ProfileReqs : ProfileReply(r)
  \/ \E header \in HeldHeaders : PendingRequests(header)
  \/ \E header \in HeldHeaders, email \in {Str(<<"a">>), Str(<<"A">>)} :
       ApproveRequest(header, email)

SpecProfile == InitProfile /\ [][NextProfile]_vars

\* The credential checks.  The three accounts of InitProfile exist and
\* nobody has logged in; the admin of club 1 and the coordinator log in,
\* and requests come with no header, with the token a client holds under
\* the scheme Bearer, under another scheme or without a scheme, and with a
\* token signed with another secret; tokens expire as the clock runs.
\* Profile requests are served one at a time.
InitGate ==
  /\ InitAccounts
  /\ InitSessIdle

GateHeaders ==
  {Undefined, Header("Bearer", forgedSession(coordinatorEmail, Null, now))}
    \cup HeldHeaders
    \cup {Header("Basic", token) : token \in HeldTokens}
    \cup {BareHeader(token) : token \in HeldTokens}

GateBodies ==
  {ProfileBody(Str(<<"n">>), Str(<<"c", "s">>), Str(<<"7">>), Undefined, Undefined)}

NextGate ==
  \/ Tick
  \/ \E email \in {Str(<<"c">>), coordinatorEmail},
        password \in {Password, Str(<<"s", "e", "c", "r", "e">>)} :
       Login(email, password)
  \/ \E header \in GateHeaders, body \in GateBodies :
       ProfileRead(1, header, body)
  \/ \E r \in ProfileReqs : ProfileUpdate(r)
  \/ \E r \in ProfileReqs : ProfileReply(r)
  \/ \E header \in GateHeaders : PendingRequests(header)
  \/ \E header \in GateHeaders : Stats(header)
  \/ \E header \in GateHeaders, email \in {Str(<<"a">>), Undefined} :
       ApproveRequest(header, email)
  \/ \E header \in GateHeaders, email \in {Str(<<"a">>), Undefined} :
       RejectRequest(header, email)

SpecGate == InitGate /\ [][NextGate]_vars

\* Announcements and rosters.  User a has asked to be the admin of club 2
\* and waits for the approval, b is a student, c is the admin of club 1;
\* nobody has logged in.  One announcement is created, with registration
\* enabled and no limits.  Table club_subscriptions is empty, or holds the
\* active subscriptions of b to both clubs and of c to club 2.
SubscriptionTables ==
  {{},
   {[user |-> Str(<<"b">>), club_id |-> Num(1)],
    [user |-> Str(<<"b">>), club_id |-> Num(2)],
    [user |-> Str(<<"c">>), club_id |-> Num(2)]}}

InitClub ==
  /\ now = 0
  /\ resp = NoResp
  /\ codeStore = [k \in Keys |-> Undefined]
  /\ users = [k \in Accounts |->
               IF k = Str(<<"a">>)
               THEN [ProfileAccount(Null, Num(2)) EXCEPT !.admin_requested = TRUE]
               ELSE IF k = Str(<<"b">>) THEN ProfileAccount(Str(<<"student">>), Null)
               ELSE IF k = Str(<<"c">>)
               THEN ProfileAccount(Str(<<"club_admin">>), Num(1))
               ELSE ProfileAccount(Null, Null)]
  /\ vreq = [r \in VerifyReqs |-> Idle]
  /\ issues = 0
  /\ lastIssue = [k \in Keys |-> Undefined]
  /\ passes = [k \in Keys |-> 0]
  /\ InitRegIdle
  /\ tokens = [u \in Accounts |-> Undefined]
  /\ preq = [r \in ProfileReqs |-> Idle]
  /\ notify = "none"
  /\ club_subscriptions \in SubscriptionTables
  /\ attempted = {}
  /\ DEV_FALLBACK = FALSE
  /\ InitPool

NextClub ==
  \/ Tick
  \/ \E email \in Clients : Login(email, Password)
  \/ \E header \in HeldHeaders : ApproveRequest(header, Str(<<"a">>))
  \/ \E header \in HeldHeaders \cup {Undefined} :
       CreateAnnouncement(header, Str(<<"t", "r", "u", "e">>), Undefined, Undefined)
  \/ \E found \in BOOLEAN : NotifyClub(found)
  \/ NotifyLoad
  \/ \E header \in HeldHeaders \cup {Undefined} : Roster(header)
  \/ \E header \in HeldHeaders \cup {Undefined} : RosterExport(header)

SpecClub == InitClub /\ [][NextClub]_vars

\* Sign-up next to the other writers of table users.  Address a has no
\* row; b has one, with a password and a request for club 2 that waits for
\* the approval; the coordinator holds a session token.  Two /auth/verify
\* requests run interleaved, with and without a password.
InitSignup ==
  /\ now = 0
  /\ resp = NoResp
  /\ codeStore = [k \in Keys |-> Undefined]
  /\ users = [k \in Accounts |->
               IF k = Str(<<"b">>)
               THEN [ProfileAccount(Null, Num(2)) EXCEPT !.admin_requested = TRUE]
               ELSE IF k = coordinatorEmail THEN ProfileAccount(Null, Null)
               ELSE Null]
  /\ vreq = [r \in VerifyReqs |-> Idle]
  /\ issues = 0
  /\ lastIssue = [k \in Keys |-> Undefined]
  /\ passes = [k \in Keys |-> 0]
  /\ InitRegIdle
  /\ tokens = [u \in Accounts |->
                IF u = coordinatorEmail THEN signSession(u, Null, now) ELSE Undefined]
  /\ preq = [r \in ProfileReqs |-> Idle]
  /\ notify = "none"
  /\ club_subscriptions = {}
  /\ attempted = {}
  /\ DEV_FALLBACK = FALSE
  /\ InitPool

SignupPasswords == {Undefined, Str(<<"s", "e", "c", "r", "e", "t">>)}

NextSignup ==
  \/ \E email \in EmailInputs, code \in {Str(<<"1", "0", "0", "0", "0", "0">>)} :
       SendCode(email, code, TRUE)
  \/ \E r \in VerifyReqs, email \in EmailInputs,
        code \in {Str(<<"1", "0", "0", "0", "0", "0">>)},
        password \in SignupPasswords :
       VerifyValidate(r, email, code, password, password)
  \/ \E r \in VerifyReqs : VerifyFind(r)
  \/ \E r \in VerifyReqs, password \in SignupPasswords :
       VerifyFinish(r, password, password)
  \/ \E email \in {Str(<<"a">>), Str(<<"b">>)} : Login(email, Password)
  \/ \E email \in {Str(<<"a">>), Str(<<"b">>)} :
       ApproveRequest(Header("Bearer", tokens[coordinatorEmail]), email)

SpecSignup == InitSignup /\ [][NextSignup]_vars

\* The links of the coordinator's mail next to the /admin routes.  a has
\* asked to be a club admin without naming a club, and the mail with the
\* action token went out at time 0; b is a student, c the admin of club 1;
\* a and the coordinator hold session tokens.
InitMail ==
  /\ now = 0
  /\ resp = NoResp
  /\ codeStore = [k \in Keys |-> Undefined]
  /\ users = [k \in Accounts |->
               IF k = Str(<<"a">>)
               THEN [ProfileAccount(Null, Null) EXCEPT !.admin_requested = TRUE]
               ELSE IF k = Str(<<"b">>) THEN ProfileAccount(Str(<<"student">>), Null)
               ELSE IF k = Str(<<"c">>)
               THEN ProfileAccount(Str(<<"club_admin">>), Num(1))
               ELSE ProfileAccount(Null, Null)]
  /\ vreq = [r \in VerifyReqs |-> Idle]
  /\ issues = 0
  /\ lastIssue = [k \in Keys |-> Undefined]
  /\ passes = [k \in Keys |-> 0]
  /\ InitRegIdle
  /\ tokens = [u \in Accounts |->
                IF u \in {Str(<<"a">>), coordinatorEmail}
                THEN signSession(u, Null, now) ELSE Undefined]
  /\ preq = [r \in ProfileReqs |-> Idle]
  /\ notify = "none"
  /\ club_subscriptions = {}
  /\ attempted = {}
  /\ DEV_FALLBACK = FALSE
  /\ InitPool

\* The token of the mail about a's request.
MailedToken == sendAdminRequestEmail(Str(<<"a">>), Undefined, 0)

\* What a client can put behind ?token= and behind `Bearer`.
MailTokens == HeldTokens \cup {MailedToken}

NextMail ==
  \/ Tick
  \/ \E token \in MailTokens \cup {Undefined} : ViaEmail("approve-via-email", token)
  \/ \E token \in MailTokens \cup {Undefined} : ViaEmail("reject-via-email", token)
  \/ \E token \in MailTokens : PendingRequests(Header("Bearer", token))
  \/ \E token \in MailTokens : Stats(Header("Bearer", token))
  \/ \E token \in MailTokens, email \in UserKeys \cup {coordinatorEmail} :
       ApproveRequest(Header("Bearer", token), email)
  \/ \E token \in MailTokens, email \in {Str(<<"a">>)} :
       RejectRequest(Header("Bearer", token), email)
  \/ \E token \in MailTokens : Roster(Header("Bearer", token))

SpecMail == InitMail /\ [][NextMail]_vars

\* Subscriptions and the notification of a new announcement.  The accounts
\* are those of InitOwner; table club_subscriptions is empty or holds the
\* rows of SubscriptionTables; c creates the announcement of club 1.
InitSub ==
  /\ now = 0
  /\ resp = NoResp
  /\ codeStore = [k \in Keys |-> Undefined]
  /\ users = [k \in Accounts |->
               IF k \in {Str(<<"a">>), Str(<<"c">>)}
               THEN Account(Str(<<"club_admin">>), Num(1))
               ELSE IF k = coordinatorEmail THEN Null
               ELSE Account(Str(<<"student">>), Null)]
  /\ vreq = [r \in VerifyReqs |-> Idle]
  /\ issues = 0
  /\ lastIssue = [k \in Keys |-> Undefined]
  /\ passes = [k \in Keys |-> 0]
  /\ InitRegIdle
  /\ tokens = [u \in Accounts |-> Undefined]
  /\ preq = [r \in ProfileReqs |-> Idle]
  /\ notify = "none"
  /\ club_subscriptions \in SubscriptionTables
  /\ attempted = {}
  /\ DEV_FALLBACK = FALSE
  /\ InitPool

ClubIds == {Num(1), Num(2)}

NextSub ==
  \/ \E header \in OwnerHeaders, club_id \in ClubIds, found \in BOOLEAN :
       Subscribe(header, club_id, found)
  \/ \E header \in OwnerHeaders, club_id \in ClubIds : Unsubscribe(header, club_id)
  \/ CreateAnnouncement(Header("Bearer", signSession(Str(<<"c">>),
                                                     users[Str(<<"c">>)].role, now)),
                        Str(<<"t", "r", "u", "e">>), Undefined, Undefined)
  \/ \E found \in BOOLEAN : NotifyClub(found)
  \/ NotifyLoad

SpecSub == InitSub /\ [][NextSub]_vars

\* The lazy pool of db.js alone: queries arrive at any moment.
NextPool ==
  \/ \E q \in LazyCalls : LazyStart(q)
  \/ \E q \in LazyCalls : LazyResolved(q)
  \/ \E q \in LazyCalls : LazyEnd(q)

\* DB_HOST is a host name or an IPv4 address.
InitLazy ==
  /\ now = 0
  /\ resp = NoResp
  /\ InitAuth
  /\ InitRegIdle
  /\ InitSessIdle
  /\ DEV_FALLBACK = FALSE
  /\ hostIsIp \in BOOLEAN
  /\ actualPool = Null
  /\ created = 0
  /\ lazy = [q \in LazyCalls |-> Idle]

SpecPool == InitLazy /\ [][NextPool]_vars

(* ------------------------------ the claims ---------------------------- *)

\* The step just taken ran validateCode: it let a verify request go on
\* ("validate") or answered it "invalid or expired code".
ValidatePassed == resp'.op = "validate"

ValidateFailed ==
  /\ resp'.op = "verify"
  /\ resp'.status = 401
  /\ vreq' = vreq

\* C1: each issued OTP is consumed at most once: since the last send-code
\* for an address, at most one validateCode call has returned true for it,
\* whatever the number of verify requests and however they interleave.
C1_SingleUse == \A k \in Keys : passes[k] <= 1

\* C1: a second attempt with the code that was issued and consumed, made
\* before its expiry by another spelling of the address, was answered 401.
C1_Witness ==
  /\ resp.op = "verify"
  /\ resp.status = 401
  /\ resp.who = Str(<<"A">>)
  /\ lastIssue[Str(<<"a">>)] # Undefined
  /\ resp.code = lastIssue[Str(<<"a">>)].code
  /\ now <= lastIssue[Str(<<"a">>)].at + CODE_TTL
  /\ passes[Str(<<"a">>)] = 1

\* C2: validateCode returns true only at or before issue time + CODE_TTL,
\* and it does return true for an attempt with the exact stored code made at
\* or before that time when no code was issued and none consumed since.
C2_Expiry ==
  [][LET k == toLowerCase(resp'.who)
         li == lastIssue[k]
     IN /\ ValidatePassed => (li # Undefined /\ now <= li.at + CODE_TTL)
        /\ ValidateFailed =>
             ~(/\ li # Undefined
               /\ now <= li.at + CODE_TTL
               /\ resp'.code = li.code
               /\ passes[k] = 0)]_vars

\* C2: an attempt with the exact code, the first since the issue, made after
\* issue time + CODE_TTL, was answered 401, while the code of the other
\* address was accepted.
C2_Witness ==
  /\ resp.op = "verify"
  /\ resp.status = 401
  /\ resp.who = Str(<<"a">>)
  /\ lastIssue[Str(<<"a">>)] # Undefined
  /\ resp.code = lastIssue[Str(<<"a">>)].code
  /\ passes[Str(<<"a">>)] = 0
  /\ now > lastIssue[Str(<<"a">>)].at + CODE_TTL
  /\ passes[Str(<<"b">>)] = 1

\* C11: the store holds for each lower-cased address at most the record of
\* the most recent send-code for it, in whatever letter case the address was
\* sent, and only the code of that record passes validateCode: a code that a
\* later send-code replaced never passes.
C11_OneRecord ==
  [][/\ \A k \in Keys :
          codeStore'[k] # Undefined
          => /\ lastIssue'[k] # Undefined
             /\ codeStore'[k] = [code |-> lastIssue'[k].code,
                                 expiresAt |-> lastIssue'[k].at + CODE_TTL]
     /\ ValidatePassed
        => resp'.code = lastIssue[toLowerCase(resp'.who)].code]_vars

\* C11: two different codes were sent to one address, and a verify with the
\* first, replaced code (the address spelled in capitals) was refused inside
\* its TTL while the second is pending.
C11_Witness ==
  /\ resp.op = "verify"
  /\ resp.status = 401
  /\ resp.who = Str(<<"A">>)
  /\ lastIssue[Str(<<"a">>)] # Undefined
  /\ lastIssue[Str(<<"a">>)].prev = resp.code
  /\ lastIssue[Str(<<"a">>)].code # resp.code
  /\ codeStore[Str(<<"a">>)] # Undefined
  /\ now <= codeStore[Str(<<"a">>)].expiresAt

\* The step just taken is a validateCode call for the address resp'.who with
\* the code resp'.code.
ValidateCalled == ValidatePassed \/ ValidateFailed

\* C12: a validateCode call returns false and changes nothing when the
\* address has no record; returns false and deletes the record after its
\* expiry; returns false and leaves the record as it is on a wrong code
\* before expiry; and never changes the record of another address.
C12_Frame ==
  [][ValidateCalled =>
       LET k == toLowerCase(resp'.who)
           rec == codeStore[k] IN
       /\ \A j \in Keys \ {k} : codeStore'[j] = codeStore[j]
       /\ rec = Undefined => (ValidateFailed /\ codeStore' = codeStore)
       /\ (rec # Undefined /\ now > rec.expiresAt)
          => (ValidateFailed /\ codeStore'[k] = Undefined)
       /\ (rec # Undefined /\ now <= rec.expiresAt /\ resp'.code # rec.code)
          => (ValidateFailed /\ codeStore' = codeStore)]_vars

\* C12: a verify with the number 100000 was refused while the record of the
\* address, with the string code "100000", and the record of another
\* address are both pending and not expired.
C12_Witness ==
  /\ resp.op = "verify"
  /\ resp.status = 401
  /\ resp.who = Str(<<"a">>)
  /\ resp.code = Num(100000)
  /\ codeStore[Str(<<"a">>)] # Undefined
  /\ codeStore[Str(<<"a">>)].code = Str(<<"1", "0", "0", "0", "0", "0">>)
  /\ now <= codeStore[Str(<<"a">>)].expiresAt
  /\ codeStore[Str(<<"b">>)] # Undefined

\* The step just taken is the updateProfile call of a POST /profile request
\* of user u with body b.
ProfileWrites(u, b) ==
  \E r \in ProfileReqs : /\ preq[r].pc = "update"
                         /\ preq'[r].pc = "reply"
                         /\ preq[r].email = u
                         /\ preq[r].body = b

\* Row `new` differs from row `old` in name, branch and roll_number at most.
OnlyTextChanged(old, new) ==
  new = [old EXCEPT !.name = new.name, !.branch = new.branch,
                    !.roll_number = new.roll_number]

\* C13: a POST /profile request, whatever role and club_id it carries,
\* leaves the role and the club_id of a user whose stored role is not null
\* as they are: of that row only name, branch and roll_number may change.
C13_RoleKept ==
  [][\A u \in Accounts, b \in ProfileBodies :
       (ProfileWrites(u, b) /\ users[u].role # Null)
       => OnlyTextChanged(users[u], users'[u])]_vars

\* The rows the coordinator is to see as pending: admin_requested set and
\* no role.
IsPending(row) == row # Null /\ row.admin_requested /\ row.role = Null

\* C14: a POST /profile request of a user whose stored role is null, with
\* role club_admin, leaves the role null, sets admin_requested and records
\* the requested club_id, and GET /admin/pending-requests then lists the
\* user; with role student it sets the role to student and leaves
\* admin_requested as it is.
C14_Declare ==
  [][/\ \A u \in Accounts, b \in ProfileBodies :
          (ProfileWrites(u, b) /\ users[u].role = Null)
          => /\ b.role = Str(<<"club_admin">>)
                => /\ users'[u].role = Null
                   /\ users'[u].admin_requested
                   /\ users'[u].club_id =
                        (IF b.club_id = Undefined THEN Null ELSE b.club_id)
                   /\ IsPending(users'[u])
             /\ b.role = Str(<<"student">>)
                => /\ users'[u].role = Str(<<"student">>)
                   /\ users'[u].admin_requested = users[u].admin_requested
     /\ (resp'.op = "pending-requests" /\ resp'.status = 200)
        => resp'.body = {[email |-> u, club_id |-> users[u].club_id] :
                           u \in {v \in Accounts : IsPending(users[v])}}]_vars

\* C14: the coordinator was given the list of pending requests, and it
\* names a, who has no role, with club 2.
C14_Witness ==
  /\ resp.op = "pending-requests"
  /\ resp.status = 200
  /\ [email |-> Str(<<"a">>), club_id |-> Num(2)] \in resp.body
  /\ users[Str(<<"a">>)].role = Null

\* The /admin routes.
AdminOps == {"pending-requests", "stats", "approve-request", "reject-request"}

\* The header is `Bearer <token>` with a token signed with JWT_SECRET that
\* has not expired at time t.
ValidBearer(header, t) ==
  /\ header # Undefined
  /\ Len(header.parts) = 2
  /\ header.parts[1] = "Bearer"
  /\ header.parts[2].secret = "JWT_SECRET"
  /\ t < header.parts[2].exp

\* C15: an /admin route acts (answers with data, or changes a user row)
\* only for a request with a valid session token whose subject is the
\* coordinator's address; every other caller is answered 401 or 403, is
\* told nothing, and no user row changes.
C15_CoordinatorOnly ==
  [][resp'.op \in AdminOps =>
       IF ValidBearer(resp'.header, now)
          /\ resp'.header.parts[2].sub = Str(<<"bigbossssz550@gmail.com">>)
       THEN resp'.status \in {200, 400, 500}
       ELSE /\ resp'.status \in {401, 403}
            /\ users' = users
            /\ resp'.op \in {"pending-requests", "stats"} => resp'.body = Null]_vars

\* C15: the admin of club 1, with a valid token, asked to approve a and was
\* answered 403; a has no role.
C15_Witness ==
  /\ resp.op = "approve-request"
  /\ resp.status = 403
  /\ ValidBearer(resp.header, now)
  /\ resp.header.parts[2].sub = Str(<<"c">>)
  /\ resp.body = Str(<<"a">>)
  /\ users[Str(<<"a">>)].role = Null

\* C17: a request to a route that requires identity is answered 401 and
\* changes nothing when it has no Authorization header, when the header is
\* not `Bearer <token>`, and when the token has a bad signature or has
\* expired.
C17_FailClosed ==
  [][(/\ resp'.op \in AdminOps \cup {"profile"}
      /\ "header" \in DOMAIN resp'
      /\ ~ValidBearer(resp'.header, now))
     => /\ resp'.status = 401
        /\ users' = users
        /\ preq' = preq]_vars

\* C20: a send-code request whose delivery fails is answered 500 when
\* DEV_FALLBACK is off and with success and the stored code when it is on;
\* the code is in the answer in no other case, and never in an answer of
\* /auth/verify.
C20_Fallback ==
  [][/\ resp'.op = "send-code"
        => /\ (resp'.code # Undefined /\ ~resp'.delivered /\ ~DEV_FALLBACK)
              => (resp'.status = 500 /\ resp'.body = Undefined)
           /\ (resp'.code # Undefined /\ ~resp'.delivered /\ DEV_FALLBACK)
              => /\ resp'.status = 200
                 /\ resp'.body = resp'.code
                 /\ resp'.body = codeStore'[toLowerCase(resp'.who)].code
           /\ resp'.body # Undefined => (~resp'.delivered /\ DEV_FALLBACK)
     /\ resp'.op \in {"verify", "validate"}
        => "body" \notin DOMAIN resp']_vars

\* C20: with DEV_FALLBACK on, a delivery failed and the answer carried the
\* code that is now pending for the address.
C20_Witness ==
  /\ resp.op = "send-code"
  /\ DEV_FALLBACK
  /\ ~resp.delivered
  /\ resp.status = 200
  /\ resp.body = codeStore[Str(<<"a">>)].code

\* The row of the requester that the last step answered, and whether it
\* is the row of a club admin with a club.
Requester == users[resp'.who]

IsClubAdmin(row) == row.role = Str(<<"club_admin">>) /\ row.club_id # Null

RosterOps == {"registrations", "export"}

RoleGatedOps == {"create"} \cup RosterOps

\* C18: a role change does not take effect for a session token issued
\* before it: until the token expires, a request it authenticates is
\* authorized according to the role fixed in the token at issuance.
C18_Original ==
  [][(resp'.op \in RoleGatedOps /\ ValidBearer(resp'.header, now)) =>
       /\ resp'.header.parts[2].role # Str(<<"club_admin">>) => resp'.status = 403
       /\ resp'.status = 200 => resp'.header.parts[2].role = Str(<<"club_admin">>)]_vars

\* C18, amended: a session token issued before a role change stays valid
\* until it expires (it is never answered as a bad credential), but the
\* role in it is not consulted: the request is authorized according to the
\* role stored in table users when the request is handled, so the change
\* takes effect at once for tokens issued before it.
C18_Amended ==
  [][(resp'.op \in RoleGatedOps /\ ValidBearer(resp'.header, now)) =>
       /\ resp'.status \notin {401, 500}
       /\ resp'.who \in Accounts
       /\ Requester.role # Str(<<"club_admin">>) => resp'.status = 403
       /\ resp'.status = 200 => Requester.role = Str(<<"club_admin">>)
       /\ (resp'.op = "create" /\ IsClubAdmin(Requester)) => resp'.status = 200]_vars

\* A token issued while the user had no role creates an announcement once
\* the coordinator has approved the user.
C18_Witness ==
  /\ resp.op = "create"
  /\ resp.status = 200
  /\ resp.header.parts[2].role = Null
  /\ resp.header.parts[2].sub = Str(<<"a">>)
  /\ users[Str(<<"a">>)].role = Str(<<"club_admin">>)

\* C19: notification problems never fail or roll back the creation of an
\* announcement: whichever deliveries fail, and when loading the
\* subscribers fails, the announcement row persists, the creation request
\* is answered with success, and a delivery is attempted to every other
\* subscriber (stated for the empty set of failing deliveries, the weakest
\* case: every subscriber of the club has had an attempt when the
\* notification ends past the club lookup).
C19_Isolated ==
  [][/\ ann # Null => ann' = ann
     /\ ann' # ann => resp'.op = "create" /\ resp'.status = 200
     /\ (notify = "load" /\ notify' # "load") =>
          subscribersOf(club_subscriptions, ann.club_id) \subseteq attempted']_vars

\* The part of C19 about the announcement itself: once created and
\* answered with 200 the row is never changed or removed, whatever the
\* notification does.
C19_RowPersists ==
  [][/\ ann # Null => ann' = ann
     /\ ann' # ann => resp'.op = "create" /\ resp'.status = 200]_vars

\* The notification of an announcement of a club with subscribers has ended
\* in its catch.
C19_Ended ==
  /\ notify = "failed"
  /\ ann # Null
  /\ subscribersOf(club_subscriptions, ann.club_id) # {}

\* C21: while the password hash of an address is the one a successful
\* /auth/verify stored for password p, /auth/login with that address and p
\* answers with a token and with any other password answers 401; login for
\* an unknown address answers 401, for a user without a password 400; and
\* login never changes a user row.
C21_Login ==
  [][\A email \in LoginEmails, password \in LoginPasswords :
       (Login(email, password) /\ email.typ = "string") =>
         LET row == users[toLowerCase(email)] IN
         /\ users' = users
         /\ row = Null => resp'.status = 401
         /\ (row # Null /\ row.password_hash = Null) => resp'.status = 400
         /\ \A p \in SetPasswords :
              (row # Null /\ row.password_hash = bcryptHash(p)) =>
                IF password = p
                THEN resp'.status = 200 /\ resp'.body = tokens'[toLowerCase(email)]
                ELSE resp'.status = 401]_vars

\* What does hold of /auth/login: the password that was set logs in, a
\* string that differs from it within its first 72 characters gets 401, and
\* no login changes a user row.
C21_LoginWithin72 ==
  [][\A email \in LoginEmails, password \in LoginPasswords :
       (Login(email, password) /\ email.typ = "string") =>
         LET row == users[toLowerCase(email)] IN
         /\ users' = users
         /\ row = Null => resp'.status = 401
         /\ (row # Null /\ row.password_hash = Null) => resp'.status = 400
         /\ \A p \in SetPasswords :
              (row # Null /\ row.password_hash = bcryptHash(p)
               /\ password.typ = "string") =>
                IF Prefix(password.chars, 72) = Prefix(p.chars, 72)
                THEN resp'.status = 200 /\ resp'.body = tokens'[toLowerCase(email)]
                ELSE resp'.status = 401]_vars

\* A login has been answered with a token.
C21_LoggedIn ==
  /\ resp.op = "login"
  /\ resp.status = 200
  /\ users[Str(<<"a">>)].password_hash = bcryptHash(LongPassword("a"))

\* C22: a user row comes into being only in a successful /auth/verify for
\* its address, and with role null; a /auth/verify for an address that has
\* a row keeps that one row (the table holds one row per lower-cased
\* address) and leaves its role, club_id and admin_requested as they were.
C22_CreatedByVerify ==
  [][\A k \in Accounts :
       /\ (users[k] = Null /\ users'[k] # Null) =>
            /\ resp'.op = "verify"
            /\ resp'.status = 200
            /\ toLowerCase(resp'.who) = k
            /\ users'[k].role = Null
            /\ users'[k].club_id = Null
            /\ ~users'[k].admin_requested
       /\ (resp'.op = "verify" /\ resp'.who # Undefined
           /\ toLowerCase(resp'.who) = k /\ users[k] # Null) =>
            /\ users'[k] # Null
            /\ users'[k].role = users[k].role
            /\ users'[k].club_id = users[k].club_id
            /\ users'[k].admin_requested = users[k].admin_requested
       /\ users[k] # Null => users'[k] # Null]_vars

\* A password reset, under another spelling of the address, of a user the
\* coordinator has approved as a club admin.
C22_Witness ==
  /\ resp.op = "verify"
  /\ resp.status = 200
  /\ resp.who = Str(<<"A">>)
  /\ users[Str(<<"a">>)] # Null
  /\ users[Str(<<"a">>)].role = Str(<<"club_admin">>)
  /\ users[Str(<<"a">>)].password_hash # Null

\* C23: registration-info changes no state and answers with a projection
\* of the current state: its enabled field is the stored
\* registration_enabled flag, current_count is the number of rows with
\* status registered (here: its decimal digits), is_full is true exactly
\* when max_registrations is set and current_count >= max_registrations,
\* and deadline_passed is true exactly when a deadline is set and now is
\* after it.
C23_Projection ==
  [][(resp'.op = "registration-info" /\ resp'.status = 200) =>
       /\ UNCHANGED <<now, authVars, regVars, sessVars>>
       /\ resp'.body.registration_enabled = Bool(ann.registration_enabled)
       /\ resp'.body.current_count = DigitString(registeredCount(regs))
       /\ resp'.body.is_full = Bool(TRUE)
            <=> (/\ ann.max_registrations # Null
                 /\ registeredCount(regs) >= ann.max_registrations.val)
       /\ resp'.body.deadline_passed = Bool(TRUE)
            <=> (/\ ann.registration_deadline # Null
                 /\ now > ann.registration_deadline.val)]_vars

\* C23 without its enabled field, and with is_full for a positive
\* max_registrations: what the answer does agree with.
C23_DerivedFields ==
  [][(resp'.op = "registration-info" /\ resp'.status = 200) =>
       /\ UNCHANGED <<now, authVars, regVars, sessVars>>
       /\ resp'.body.registration_enabled = Bool(FALSE)
       /\ resp'.body.current_count = DigitString(registeredCount(regs))
       /\ resp'.body.is_full = Bool(TRUE)
            <=> (/\ truthy(ann.max_registrations)
                 /\ registeredCount(regs) >= ann.max_registrations.val)
       /\ resp'.body.deadline_passed = Bool(TRUE)
            <=> (/\ ann.registration_deadline # Null
                 /\ now > ann.registration_deadline.val)]_vars

\* registration-info has answered for an event with registration enabled
\* that users have registered for.
C23_Asked ==
  /\ resp.op = "registration-info"
  /\ resp.status = 200
  /\ ann.registration_enabled
  /\ registeredCount(regs) > 0

OwnerOps == {"delete", "put"}

\* C24: an announcement row, once there, is never removed.  DELETE changes
\* its is_active to false and nothing else, PUT its title and content and
\* nothing else, and each only for a requester whose authenticated address
\* is the row's created_by; for every other requester the call fails and
\* the row is unchanged.
C24_OwnerOnly ==
  [][/\ ann # Null => ann' # Null
     /\ (ann # Null /\ ann' # ann) =>
          /\ resp'.op \in OwnerOps
          /\ resp'.status = 200
          /\ ValidBearer(resp'.header, now)
          /\ resp'.who = ann.created_by
          /\ resp'.op = "delete" =>
               ann' = [ann EXCEPT !.is_active = FALSE]
          /\ resp'.op = "put" =>
               ann' = [ann EXCEPT !.title = ann'.title, !.content = ann'.content]
     /\ (resp'.op \in OwnerOps /\ ann # Null
         /\ ~(ValidBearer(resp'.header, now) /\ resp'.who = ann.created_by)) =>
          resp'.status # 200 /\ ann' = ann]_vars

\* The creator has changed the title and soft-deleted the announcement, and
\* the other admin of the creator's club is refused.
C24_Witness ==
  /\ ann # Null
  /\ ann.created_by = Str(<<"c">>)
  /\ ann.title = Str(<<"u">>)
  /\ ~ann.is_active
  /\ resp.op = "delete"
  /\ resp.status = 404
  /\ resp.who = Str(<<"a">>)

\* C29: once an announcement has been soft-deleted, GET /announcements
\* does not return it and a registration for it does not succeed.
C29_Hidden ==
  [][(ann # Null /\ ~ann.is_active) =>
       /\ resp'.op = "list" => ann \notin resp'.body
       /\ resp'.op = "register" => resp'.status # 200]_vars

\* A user holds a registration for a soft-deleted announcement.
C29_Deleted ==
  /\ ann # Null
  /\ ~ann.is_active
  /\ resp.op = "register"
  /\ resp.status = 200

ViaEmailOps == {"approve-via-email", "reject-via-email"}

IsSessionToken(token) == token # Undefined /\ "sub" \in DOMAIN token

IsActionToken(token) == token # Undefined /\ "action" \in DOMAIN token

ApproveOps == {"approve-request", "approve-via-email"}

\* C28: a user's role becomes club_admin only in an approval of a request
\* that is pending at that moment (admin_requested true and role null); an
\* approval for a user without a pending request, or with a role, leaves
\* the role as it is.
C28_PendingOnly ==
  [][\A k \in Accounts :
       /\ (users[k] # Null /\ users'[k].role = Str(<<"club_admin">>)
           /\ users[k].role # Str(<<"club_admin">>)) =>
            resp'.op \in ApproveOps /\ IsPending(users[k])
       /\ (resp'.op \in ApproveOps /\ users[k] # Null /\ ~IsPending(users[k])) =>
            users'[k].role = users[k].role]_vars

\* What does hold: a role changes to club_admin only in an approve-request
\* answered 200 to the coordinator, for the address of the request body.
C28_CoordinatorOnly ==
  [][\A k \in Accounts :
       (users[k] # Null /\ users'[k].role # users[k].role) =>
         /\ resp'.op = "approve-request"
         /\ resp'.status = 200
         /\ resp'.who = coordinatorEmail
         /\ toLowerCase(resp'.body) = k
         /\ users'[k].role = Str(<<"club_admin">>)]_vars

\* A student has been made a club admin.
C28_Promoted ==
  /\ resp.op = "approve-request"
  /\ resp.status = 200
  /\ users[Str(<<"b">>)].role = Str(<<"club_admin">>)

\* C26: the write of a POST /profile request never replaces the role
\* club_admin by student, also when a coordinator's approval has set
\* club_admin after the request read the user's still-null role and before
\* its update ran.
C26_NoFlip ==
  [][\A u \in Accounts :
       (/\ resp'.op = "profile-update"
        /\ users[u] # Null
        /\ users[u].role = Str(<<"club_admin">>))
         => users'[u].role # Str(<<"student">>)]_vars

\* The update of a role=student request has run after an approval that
\* came between its read and its write.
C26_Flipped ==
  /\ resp.op = "profile-update"
  /\ resp.who = Str(<<"a">>)
  /\ users[Str(<<"a">>)].role = Str(<<"student">>)
  /\ ~users[Str(<<"a">>)].admin_requested

\* C27: the notification of an announcement of club C attempts a delivery
\* to exactly the users whose subscription to C is active when it
\* dispatches: each of them gets an attempt, nobody else does; and a
\* subscribe request of a user for an existing club makes the subscription
\* active, an unsubscribe request ends it.
C27_ExactlySubscribers ==
  [][/\ (notify = "load" /\ notify' # "load") =>
          attempted' = subscribersOf(club_subscriptions, ann.club_id)
     /\ (resp'.op = "subscribe" /\ resp'.who \in Accounts
         /\ users[resp'.who] # Null /\ resp'.error # "Club not found") =>
          [user |-> resp'.who, club_id |-> resp'.body] \in club_subscriptions'
     /\ (resp'.op = "unsubscribe" /\ resp'.who \in Accounts
         /\ users[resp'.who] # Null) =>
          [user |-> resp'.who, club_id |-> resp'.body] \notin club_subscriptions']_vars

\* What does hold: nobody without an active subscription to the club is
\* sent a notification, and no request changes table club_subscriptions.
C27_NoneOthers ==
  [][/\ attempted' \subseteq
          (IF ann' = Null THEN {} ELSE subscribersOf(club_subscriptions, ann'.club_id))
     /\ club_subscriptions' = club_subscriptions]_vars

\* The notification of club 1's announcement has ended while b holds an
\* active subscription to club 1 and has not been sent anything.
C27_Missed ==
  /\ notify = "failed"
  /\ [user |-> Str(<<"b">>), club_id |-> Num(1)] \in club_subscriptions
  /\ Str(<<"b">>) \notin attempted

\* C30: a process constructs at most one Pool: the calls of getLazyPool
\* that arrive before the first initialization has finished all end up
\* with the same Pool, and no second Pool is constructed.
C30_OnePool ==
  /\ created <= 1
  /\ \A q \in LazyCalls : lazy[q] # Idle /\ lazy[q].pc = "done" => lazy[q].pool = Num(1)

\* What does hold: with a DB_HOST that needs no resolving one Pool is
\* constructed, and every call is given the Pool actualPool holds when the
\* call returns.
C30_OnePoolForIp ==
  /\ hostIsIp => created <= 1
  /\ created = 0 <=> actualPool = Null
  /\ actualPool # Null => actualPool = Num(created)

\* Two queries that arrived during the DNS lookup run on different Pools.
C30_TwoPools ==
  /\ created = 2
  /\ lazy[1] # Idle /\ lazy[1].pc = "done"
  /\ lazy[2] # Idle /\ lazy[2].pc = "done"
  /\ lazy[1].pool # lazy[2].pool

\* The rows of user u with status registered, and their number in the table.
HasRegistered(tbl, u) == \E i \in DOMAIN tbl[u] : tbl[u][i] = "registered"

NumRegistered(tbl) ==
  Cardinality({<<u, i>> \in UserKeys \X (1..(MaxCap + 3)) :
                 i \in DOMAIN tbl[u] /\ tbl[u][i] = "registered"})

\* The step just taken answered a register request of user u.
RegAnswered(u) == resp'.op = "register" /\ resp'.who = u

\* The request answered got past the checks of the announcement row.
PastOpenChecks == \E r \in RegReqs : rreq[r] # Idle /\ rreq'[r] = Idle

\* The request answered was handled alone: no step of another register,
\* unregister or create request fell between its first step and its answer.
Alone ==
  \/ rreq' = rreq
  \/ \E r \in RegReqs : rreq[r] # Idle /\ rreq'[r] = Idle /\ ~overlap[r]

\* Registration is enabled and the deadline, if any, has not passed.
Open ==
  /\ ann # Null
  /\ ann.registration_enabled
  /\ ann.registration_deadline # Null => now <= ann.registration_deadline.val

EventIsFull == "Event is full. Maximum registrations reached."

\* What C3 says of a register request handled alone, by a user without a
\* registered row, while registration is open: it fails as full when
\* max_registrations rows are registered (cancelled rows not counted), and
\* otherwise succeeds and adds one registered row.
CapacityRule(u) ==
  IF NumRegistered(regs) >= ann.max_registrations.val
  THEN resp'.status = 400 /\ resp'.error = EventIsFull /\ regs' = regs
  ELSE /\ resp'.status = 200
       /\ HasRegistered(regs', u)
       /\ NumRegistered(regs') = NumRegistered(regs) + 1

C4_Capacity ==
  (ann # Null /\ ann.max_registrations # Null)
    => NumRegistered(regs) <= ann.max_registrations.val

\* C5: every register request answered with success leaves a registered row
\* for its user, so that registration-status reports registered = true.
C5_SuccessLeavesRow ==
  [][\A u \in UserKeys :
       (RegAnswered(u) /\ resp'.status = 200) => registrationStatus(regs', u)]_vars

\* The step just taken is the first step of a register request.
RegStarted ==
  \/ resp'.op = "register" /\ rreq' = rreq
  \/ \E r \in RegReqs : rreq[r] = Idle /\ rreq'[r] # Idle

DeadlinePassed == "Registration deadline has passed"

\* C6 as stated: a register after the deadline D fails with the deadline
\* error and changes no row; the deadline error is given at no time up to D.
C6_Original ==
  [][/\ (RegStarted /\ ann # Null /\ ann.registration_deadline # Null
         /\ now > ann.registration_deadline.val)
        => (resp'.error = DeadlinePassed /\ regs' = regs /\ rreq' = rreq)
     /\ resp'.error = DeadlinePassed
        => (/\ ann.registration_deadline # Null
            /\ now > ann.registration_deadline.val)]_vars

\* C6 amended: a register after D fails and changes no row, with the
\* deadline error when registration is enabled and with the not-enabled
\* error when it is not; the deadline error is given at no time up to D.
C6_Amended ==
  [][/\ (RegStarted /\ ann # Null /\ ann.registration_deadline # Null
         /\ now > ann.registration_deadline.val)
        => (/\ resp'.status = 400
            /\ resp'.error = IF ann.registration_enabled THEN DeadlinePassed
                             ELSE "Registration not enabled for this event"
            /\ regs' = regs
            /\ rreq' = rreq)
     /\ resp'.error = DeadlinePassed
        => (/\ ann.registration_deadline # Null
            /\ now > ann.registration_deadline.val)]_vars

\* C6: a register was refused for the deadline while a row registered
\* before the deadline is in the table.
C6_Witness ==
  /\ resp.op = "register"
  /\ resp.error = DeadlinePassed
  /\ \E u \in UserKeys : HasRegistered(regs, u)

\* C7, the part on rows: at most one row per (announcement, user), and no
\* row is ever deleted.
OneRowKept ==
  /\ \A u \in UserKeys : Len(regs'[u]) <= 1
  /\ \A u \in UserKeys : Len(regs'[u]) >= Len(regs[u])

C8_Unregister ==
  [][\A u \in UserKeys :
       (resp'.op = "unregister" /\ resp'.who = u)
       => /\ IF ~HasRegistered(regs, u)
             THEN /\ resp'.status = 404
                  /\ resp'.error = "Registration not found"
                  /\ regs' = regs
             ELSE /\ resp'.status = 200
                  /\ regs'[u] = <<"cancelled">>
                  /\ \A v \in UserKeys \ {u} : regs'[v] = regs[v]
          /\ (resp.op = "unregister" /\ resp.who = u /\ resp.status = 200)
             => (resp'.status = 404 /\ regs'[u] = <<"cancelled">>)]_vars

\* C8: an unregister of a user whose row is cancelled was answered 404.
C8_Witness ==
  /\ resp.op = "unregister"
  /\ resp.status = 404
  /\ regs[resp.who] = <<"cancelled">>

\* The request carries a password shorter than 6 characters, or one that
\* differs from confirm.
CarriesBadPassword(password, confirm) ==
  /\ password # Undefined
  /\ \/ (password.typ = "string" /\ Len(password.chars) < 6)
     \/ password # confirm

\* C9 as stated: a verify request with such a password is answered 400 and
\* leaves the users table unchanged.
C9_Original ==
  [][(resp'.op = "verify" /\ CarriesBadPassword(resp'.password, resp'.confirm))
       => (resp'.status = 400 /\ users' = users)]_vars

\* C9 amended: a verify request with such a password leaves the users table
\* unchanged and is answered 400, or 401 "invalid or expired code" when it
\* ends at the code check, which comes first.
C9_Amended ==
  [][(resp'.op = "verify" /\ CarriesBadPassword(resp'.password, resp'.confirm))
       => /\ users' = users
          /\ \/ resp'.status = 400
             \/ /\ resp'.status = 401
                /\ resp'.error = "invalid or expired code"
                /\ vreq' = vreq]_vars

\* C9: a verify request for an existing user with a password hash was
\* answered 400 for its confirm.
C9_Witness ==
  /\ resp.op = "verify"
  /\ resp.status = 400
  /\ resp.error = "password and confirm do not match"
  /\ users[toLowerCase(resp.who)] # Null
  /\ users[toLowerCase(resp.who)].password_hash # Null

\* C10: once a code has matched, no record is pending for its address until
\* the next send-code, whatever became of the request it matched in; and a
\* further attempt with that code is answered 401 "invalid or expired code".
C10_Burned ==
  [][/\ \A k \in Keys : passes'[k] >= 1 => codeStore'[k] = Undefined
     /\ (/\ ValidatePassed \/ (resp'.op = "verify" /\ vreq' = vreq)
         /\ resp'.who # Undefined
         /\ passes[toLowerCase(resp'.who)] >= 1
         /\ resp'.code = lastIssue[toLowerCase(resp'.who)].code)
        => (resp'.status = 401 /\ resp'.error = "invalid or expired code")]_vars

\* C10: the code matched in a request that ended without creating the user
\* (it was rejected), and a retry with the same code before its expiry was
\* answered 401.
C10_Witness ==
  /\ resp.op = "verify"
  /\ resp.status = 401
  /\ resp.who = Str(<<"a">>)
  /\ \A r \in VerifyReqs : vreq[r] = Idle
  /\ passes[Str(<<"a">>)] = 1
  /\ resp.code = lastIssue[Str(<<"a">>)].code
  /\ now <= lastIssue[Str(<<"a">>)].at + CODE_TTL
  /\ users[Str(<<"a">>)] = Null

====
